---- MODULE Spec2Model ----
(***************************************************************************)
(* A model of the kryon Rust bindings: the kryon_app! macro pipeline       *)
(* (parser.rs -> codegen.rs -> the builders of builder.rs -> ir.rs).       *)
(*                                                                         *)
(* Identifiers are sequences of one-character strings, so that the         *)
(* character loop of to_snake_case can be modelled as the code runs it.    *)
(***************************************************************************)
EXTENDS Integers, Sequences, FiniteSets, TLC

VARIABLES
    input,        \* the token stream handed to kryon_app!
    pc,           \* position in the pipeline
    pstack,       \* activation records of ComponentBlock::parse (innermost last)
    branch,       \* the branch the last body-loop iteration took
    look,         \* the two tokens that iteration looked at
    parsed,       \* Result<ComponentBlock>: [ok, block, err]
    code,         \* the expansion produced by generate_code
    ip,           \* next instruction of the expansion to run
    id_counter,   \* `let mut id_counter = 0u32`
    rstack,       \* blocks being evaluated: [component_id, builder]
    value,        \* the IRComponent the last child argument evaluated to
    doc,          \* the IRDocument the expansion evaluates to
    json,         \* IRDocument::to_json(doc)
    doc2,         \* IRDocument::from_json(json)
    nm_in,        \* a block type name
    nm_out,       \* to_snake_case(nm_in)
    nm_again,     \* to_snake_case(nm_out)
    nm_builder,   \* component_type_to_builder(nm_in)
    nm_pc,
    rx_expr,      \* the syn::Expr handed to the reactive analysis
    rx_info,      \* analyze_reactive_expr(&rx_expr)
    rx_reactive,  \* is_reactive_expr(&rx_expr)
    rx_binding,   \* generate_reactive_binding(&rx_expr, &rx_info)
    rx_code,      \* the code generated for a block with the property width: rx_expr
    rx_pc,
    dm_dim,       \* a Dimension
    dm_str,       \* dm_dim.to_string(), or a string handed to Dimension::from
    dm_out,       \* Dimension::from(dm_str)
    dm_pc,
    sg_values,    \* the RefCell<T> cells, by number
    sg_subs,      \* the RefCell<Vec<Box<dyn Fn(&T)>>> cells, by number
    sg_handles,   \* the Signal handles alive: [value, subscribers], two Rc pointers
    sg_derived,   \* the handle derive returned, 0 before
    sg_stack,     \* the calls of set under way: notify_subscribers' loop position
    sg_calls,     \* the calls of set, update and set_if_changed made so far
    sg_logs,      \* what each subscribed closure was called with
    sg_ret        \* what the last finished call returned

pipeVars == <<input, pc, pstack, branch, look, parsed, code, ip, id_counter,
              rstack, value, doc, json, doc2>>
nameVars == <<nm_in, nm_out, nm_again, nm_builder, nm_pc>>
rxVars == <<rx_expr, rx_info, rx_reactive, rx_binding, rx_code, rx_pc>>
coreVars == <<pipeVars, nameVars, rxVars>>
dimVars == <<dm_dim, dm_str, dm_out, dm_pc>>
sigVars == <<sg_values, sg_subs, sg_handles, sg_derived, sg_stack, sg_calls,
            sg_logs, sg_ret>>
libVars == <<dimVars, sigVars>>
vars == <<coreVars, libVars>>

(***************************************************************************)
(* Characters and names                                                    *)
(***************************************************************************)
UpperChars == <<"A","B","C","D","E","F","G","H","I","J","K","L","M",
                "N","O","P","Q","R","S","T","U","V","W","X","Y","Z">>
LowerChars == <<"a","b","c","d","e","f","g","h","i","j","k","l","m",
                "n","o","p","q","r","s","t","u","v","w","x","y","z">>

\* char::is_uppercase
is_uppercase(c) == \E i \in DOMAIN UpperChars : UpperChars[i] = c

\* c.to_lowercase().next().unwrap()
to_lowercase(c) ==
    IF is_uppercase(c)
    THEN LowerChars[CHOOSE i \in DOMAIN UpperChars : UpperChars[i] = c]
    ELSE c

N_App       == <<"A","p","p">>
N_Column    == <<"C","o","l","u","m","n">>
N_Row       == <<"R","o","w">>
N_Container == <<"C","o","n","t","a","i","n","e","r">>
N_Text      == <<"T","e","x","t">>
N_Button    == <<"B","u","t","t","o","n">>
N_TabGroup  == <<"T","a","b","G","r","o","u","p">>

n_container == <<"c","o","n","t","a","i","n","e","r">>
n_column    == <<"c","o","l","u","m","n">>
n_row       == <<"r","o","w">>
n_text      == <<"t","e","x","t">>
n_button    == <<"b","u","t","t","o","n">>
n_tab_group == <<"t","a","b","_","g","r","o","u","p">>
n_content   == <<"c","o","n","t","e","n","t">>
n_title     == <<"t","i","t","l","e">>
n_width     == <<"w","i","d","t","h">>
n_gap       == <<"g","a","p">>
n_color     == <<"c","o","l","o","r">>
n_height == <<"h","e","i","g","h","t">>
n_background == <<"b","a","c","k","g","r","o","u","n","d">>
n_padding == <<"p","a","d","d","i","n","g">>
n_margin == <<"m","a","r","g","i","n">>
n_justify_content == <<"j","u","s","t","i","f","y","_","c","o","n","t","e","n","t">>
n_align_items == <<"a","l","i","g","n","_","i","t","e","m","s">>
n_flex_grow == <<"f","l","e","x","_","g","r","o","w">>
n_flex_shrink == <<"f","l","e","x","_","s","h","r","i","n","k">>
n_opacity == <<"o","p","a","c","i","t","y">>
n_font_size == <<"f","o","n","t","_","s","i","z","e">>

(***************************************************************************)
(* codegen.rs: to_snake_case and component_type_to_builder                 *)
(***************************************************************************)
RECURSIVE snake_loop(_, _, _)
\* the `while let Some(c) = chars.next()` loop, from character i on
snake_loop(s, i, result) ==
    IF i > Len(s) THEN result
    ELSE LET c == s[i] IN
         IF is_uppercase(c)
         THEN snake_loop(s, i + 1,
                  Append(IF result # <<>> THEN Append(result, "_") ELSE result,
                         to_lowercase(c)))
         ELSE snake_loop(s, i + 1, Append(result, c))

RECURSIVE snake_loop_always_sep(_, _, _)
\* to_snake_case without the `!result.is_empty()` test
snake_loop_always_sep(s, i, result) ==
    IF i > Len(s) THEN result
    ELSE LET c == s[i] IN
         IF is_uppercase(c)
         THEN snake_loop_always_sep(s, i + 1,
                  Append(Append(result, "_"), to_lowercase(c)))
         ELSE snake_loop_always_sep(s, i + 1, Append(result, c))

to_snake_case_always_sep(s) == snake_loop_always_sep(s, 1, <<>>)

to_snake_case(s) == snake_loop(s, 1, <<>>)

\* component_type_to_builder with the "App" arm missing
component_type_to_builder_no_app(name) ==
    CASE name = N_Column    -> n_column
      [] name = N_Row       -> n_row
      [] name = N_Container -> n_container
      [] name = N_Text      -> n_text
      [] name = N_Button    -> n_button
      [] OTHER              -> to_snake_case(name)

\* component_type_to_builder falling back to container for unknown names
component_type_to_builder_fallback(name) ==
    CASE name = N_App       -> n_container
      [] name = N_Column    -> n_column
      [] name = N_Row       -> n_row
      [] name = N_Container -> n_container
      [] name = N_Text      -> n_text
      [] name = N_Button    -> n_button
      [] OTHER              -> n_container

component_type_to_builder(name) ==
    CASE name = N_App       -> n_container
      [] name = N_Column    -> n_column
      [] name = N_Row       -> n_row
      [] name = N_Container -> n_container
      [] name = N_Text      -> n_text
      [] name = N_Button    -> n_button
      [] OTHER              -> to_snake_case(name)

(***************************************************************************)
(* Token trees (proc_macro2::TokenTree as syn's cursor sees them).         *)
(*   ident    an identifier that is not a keyword                          *)
(*   kw       a keyword (`loop`)                                           *)
(*   lit      a literal                                                    *)
(*   life     a lifetime 'a (one token for Cursor::skip and peek)          *)
(*   colon    `:`      pathsep  `::` (two joint `:` puncts)     comma `,`  *)
(*   brace    a `{ ... }` group with its own token sequence                *)
(***************************************************************************)
Tk(k, s)    == [k |-> k, s |-> s, body |-> <<>>]
Brace(body) == [k |-> "brace", s |-> <<>>, body |-> body]
Id(s)       == Tk("ident", s)
Colon       == Tk("colon", <<>>)
PathSep     == Tk("pathsep", <<>>)
Comma       == Tk("comma", <<>>)
NoTok       == Tk("none", <<>>)

Drop(toks, n) == SubSeq(toks, n + 1, Len(toks))
KindAt(toks, i) == IF i <= Len(toks) THEN toks[i].k ELSE "none"

\* a `:` punct is at position i: Token![:]::peek also accepts the first half of `::`
PeekColonAt(toks, i) == KindAt(toks, i) \in {"colon", "pathsep"}

\* input.parse::<Token![:]>() at the head of toks: the rest, a lone `:` left of `::`
AfterColon(toks) ==
    IF toks[1].k = "pathsep" THEN <<Colon>> \o Drop(toks, 1) ELSE Drop(toks, 1)

(***************************************************************************)
(* syn's Expr::parse on the token kinds above, called from Property::parse *)
(* and Child::parse.  The result is [ok, n]: n tokens make the expression. *)
(***************************************************************************)
Fail  == [ok |-> FALSE, n |-> 0]
Ok(n) == [ok |-> TRUE, n |-> n]

RECURSIVE PathLen(_, _)
\* tokens of the path that starts at position i (0: no path there)
PathLen(toks, i) ==
    IF KindAt(toks, i) # "ident" THEN 0
    ELSE IF KindAt(toks, i + 1) = "pathsep"
         THEN LET more == PathLen(toks, i + 2) IN
              IF more = 0 THEN 0 ELSE 2 + more
         ELSE 1

RECURSIVE ParseExpr(_)
RECURSIVE BlockOK(_)
RECURSIVE FieldsOK(_)

\* the fields of a struct literal: member [: expr] separated by commas
FieldsOK(body) ==
    \/ body = <<>>
    \/ /\ body[1].k = "ident"
       /\ LET afterMember == Drop(body, 1)
              afterValue ==
                  IF PeekColonAt(afterMember, 1)
                  THEN LET v == ParseExpr(AfterColon(afterMember)) IN
                       IF v.ok
                       THEN [ok |-> TRUE, rest |-> Drop(AfterColon(afterMember), v.n)]
                       ELSE [ok |-> FALSE, rest |-> <<>>]
                  ELSE [ok |-> TRUE, rest |-> afterMember]
          IN /\ afterValue.ok
             /\ \/ afterValue.rest = <<>>
                \/ /\ afterValue.rest[1].k = "comma"
                   /\ FieldsOK(Drop(afterValue.rest, 1))

\* the statements of a block: expressions, all but the last one block-like
BlockOK(body) ==
    \/ body = <<>>
    \/ LET r == ParseExpr(body) IN
       /\ r.ok
       /\ \/ r.n = Len(body)
          \/ /\ body[1].k \in {"kw", "brace", "life"}
             /\ BlockOK(Drop(body, r.n))

ParseExpr(toks) ==
    LET k1 == KindAt(toks, 1)
        path == IF k1 = "pathsep"
                THEN (IF PathLen(toks, 2) = 0 THEN 0 ELSE 1 + PathLen(toks, 2))
                ELSE PathLen(toks, 1)
    IN CASE k1 = "lit" -> Ok(1)
         [] k1 \in {"ident", "pathsep"} ->
              IF path = 0 THEN Fail
              ELSE IF KindAt(toks, path + 1) = "brace"
                   THEN (IF FieldsOK(toks[path + 1].body) THEN Ok(path + 1) ELSE Fail)
                   ELSE Ok(path)
         [] k1 = "kw" ->
              IF KindAt(toks, 2) = "brace" /\ BlockOK(toks[2].body) THEN Ok(2) ELSE Fail
         [] k1 = "life" ->
              IF KindAt(toks, 2) # "colon" THEN Fail
              ELSE IF KindAt(toks, 3) = "brace" /\ BlockOK(toks[3].body) THEN Ok(3)
              ELSE IF KindAt(toks, 3) = "kw" /\ KindAt(toks, 4) = "brace"
                      /\ BlockOK(toks[4].body) THEN Ok(4)
              ELSE Fail
         [] k1 = "brace" -> IF BlockOK(toks[1].body) THEN Ok(1) ELSE Fail
         [] OTHER -> Fail

(***************************************************************************)
(* parser.rs                                                               *)
(***************************************************************************)
NoBlock == [component_type |-> <<>>, properties |-> <<>>, children |-> <<>>]
ChildComponent(b) == [kind |-> "Component", block |-> b, expr |-> <<>>]
ChildExpr(e)      == [kind |-> "Expr", block |-> NoBlock, expr |-> e]

NoResult  == [ok |-> FALSE, block |-> NoBlock, err |-> "none"]
Err(msg)  == [ok |-> FALSE, block |-> NoBlock, err |-> msg]
OkBlock(b) == [ok |-> TRUE, block |-> b, err |-> ""]

\* the inherent ParseBuffer::peek2 with a `:` pattern but requiring an identifier
\* first, as the Peek2 helper trait of parser.rs would
Peek2ColonAfterIdent(content) == KindAt(content, 1) = "ident" /\ PeekColonAt(content, 2)

\* content.peek2(Token![:]): method lookup finds syn's inherent
\* ParseBuffer::peek2 before the Peek2 helper trait; it skips one token tree,
\* whatever it is, and peeks the pattern at the next punct
Peek2Colon(content) ==
    \/ KindAt(content, 1) = "pathsep"
    \/ PeekColonAt(content, 2)

\* Child::parse with the identifier test dropped
IsBlockAheadNoIdent(content) == KindAt(content, 2) = "brace"

\* input.peek(Ident) && input.peek2(syn::token::Brace)
IsBlockAhead(content) == KindAt(content, 1) = "ident" /\ KindAt(content, 2) = "brace"

\* the loop leaving the comma after an entry in place
SkipCommaNever(content) == content

\* let _ = content.parse::<Token![,]>();
SkipComma(content) ==
    IF KindAt(content, 1) = "comma" THEN Drop(content, 1) ELSE content

\* Property::parse: [ok, prop, rest, err]
ParseProperty(content) ==
    IF KindAt(content, 1) # "ident"
    THEN [ok |-> FALSE, prop |-> <<>>, rest |-> content, err |-> "expected identifier"]
    ELSE IF ~PeekColonAt(content, 2)
    THEN [ok |-> FALSE, prop |-> <<>>, rest |-> content, err |-> "expected colon"]
    ELSE LET afterColon == AfterColon(Drop(content, 1))
             v == ParseExpr(afterColon)
         IN IF v.ok
            THEN [ok |-> TRUE,
                  prop |-> <<[name |-> content[1].s, value |-> SubSeq(afterColon, 1, v.n)]>>,
                  rest |-> Drop(afterColon, v.n), err |-> ""]
            ELSE [ok |-> FALSE, prop |-> <<>>, rest |-> content,
                  err |-> "expected expression"]

Frame(stream) ==
    [component_type |-> stream[1].s, content |-> stream[2].body,
     properties |-> <<>>, children |-> <<>>, outer |-> Drop(stream, 2)]

Top == pstack[Len(pstack)]
SetTop(f) == [pstack EXCEPT ![Len(pstack)] = f]
Looked(content) ==
    <<IF Len(content) >= 1 THEN content[1] ELSE NoTok,
      IF Len(content) >= 2 THEN content[2] ELSE NoTok>>

ParseFails(msg) ==
    /\ parsed' = Err(msg)
    /\ pstack' = <<>>
    /\ pc' = "parse_error"

afterParse == <<code, ip, id_counter, rstack, value, doc, json, doc2>>

\* kryon_app: parse_macro_input!(input as ComponentBlock), up to the braced body
ParseStart ==
    /\ pc = "parse" /\ pstack = <<>>
    /\ IF KindAt(input, 1) # "ident" THEN ParseFails("expected identifier")
       ELSE IF KindAt(input, 2) # "brace" THEN ParseFails("expected curly braces")
       ELSE /\ pstack' = <<Frame(input)>>
            /\ pc' = "parse"
            /\ parsed' = parsed
    /\ UNCHANGED <<input, branch, look, afterParse, nameVars, rxVars, libVars>>

\* one iteration of the body loop that takes the property branch
ParsePropertyEntry ==
    /\ pc = "parse" /\ pstack # <<>> /\ Top.content # <<>>
    /\ Peek2Colon(Top.content)
    /\ branch' = "property"
    /\ look' = Looked(Top.content)
    /\ LET r == ParseProperty(Top.content) IN
       IF r.ok
       THEN /\ pstack' = SetTop([Top EXCEPT !.properties = @ \o r.prop,
                                            !.content = SkipComma(r.rest)])
            /\ UNCHANGED <<pc, parsed>>
       ELSE ParseFails(r.err)
    /\ UNCHANGED <<input, afterParse, nameVars, rxVars, libVars>>

\* an iteration that takes the child branch and finds a nested block:
\* the recursive ComponentBlock::parse is entered
ParseNestedBlock ==
    /\ pc = "parse" /\ pstack # <<>> /\ Top.content # <<>>
    /\ ~Peek2Colon(Top.content)
    /\ IsBlockAhead(Top.content)
    /\ branch' = "component"
    /\ look' = Looked(Top.content)
    /\ pstack' = Append(pstack, Frame(Top.content))
    /\ UNCHANGED <<input, pc, parsed, afterParse, nameVars, rxVars, libVars>>

\* an iteration that takes the child branch and parses an opaque expression
ParseExprChild ==
    /\ pc = "parse" /\ pstack # <<>> /\ Top.content # <<>>
    /\ ~Peek2Colon(Top.content)
    /\ ~IsBlockAhead(Top.content)
    /\ branch' = "expr"
    /\ look' = Looked(Top.content)
    /\ LET r == ParseExpr(Top.content) IN
       IF r.ok
       THEN /\ pstack' = SetTop([Top EXCEPT
                   !.children = Append(@, ChildExpr(SubSeq(Top.content, 1, r.n))),
                   !.content = SkipComma(Drop(Top.content, r.n))])
            /\ UNCHANGED <<pc, parsed>>
       ELSE ParseFails("expected expression")
    /\ UNCHANGED <<input, afterParse, nameVars, rxVars, libVars>>

\* the macro accepting tokens after the top block
StreamConsumedAlways(outer) == TRUE

\* parse_macro_input!: Parser::parse2 fails unless the whole stream was consumed
StreamConsumed(outer) == outer = <<>>

\* the body is empty: Ok(ComponentBlock) goes to the caller, which is either the
\* iteration that entered the nested block (push the child, skip the comma) or
\* syn::parse, which rejects tokens left after the top block
ParseBlockEnd ==
    /\ pc = "parse" /\ pstack # <<>> /\ Top.content = <<>>
    /\ LET b == [component_type |-> Top.component_type,
                 properties |-> Top.properties, children |-> Top.children]
       IN IF Len(pstack) = 1
          THEN IF StreamConsumed(Top.outer)
               THEN /\ parsed' = OkBlock(b)
                    /\ pstack' = <<>>
                    /\ pc' = "generate"
               ELSE ParseFails("unexpected token")
          ELSE LET parent == pstack[Len(pstack) - 1] IN
               /\ pstack' = Append(SubSeq(pstack, 1, Len(pstack) - 2),
                                [parent EXCEPT
                                   !.children = Append(@, ChildComponent(b)),
                                   !.content = SkipComma(Top.outer)])
               /\ UNCHANGED <<pc, parsed>>
    /\ UNCHANGED <<input, branch, look, afterParse, nameVars, rxVars, libVars>>

ParseNext == ParseStart \/ ParsePropertyEntry \/ ParseNestedBlock
             \/ ParseExprChild \/ ParseBlockEnd


(***************************************************************************)
(* codegen.rs: the expansion as a tree (what quote! assembles)             *)
(***************************************************************************)
None    == <<>>
Some(v) == <<v>>

NoCode == [builder_fn |-> <<>>, builder_args |-> <<>>,
           property_calls |-> <<>>, child_calls |-> <<>>]

InitialContentNames == {n_content, n_text, n_title}

is_initial_content_property(name) == name \in InitialContentNames

RECURSIVE find_initial(_, _)
\* properties.iter().find_map(..) from index i on
find_initial(properties, i) ==
    IF i > Len(properties) THEN None
    ELSE IF is_initial_content_property(properties[i].name)
         THEN Some(properties[i].value)
         ELSE find_initial(properties, i + 1)

RECURSIVE find_last_initial(_, _)
\* get_initial_content taking the last matching property instead of the first
find_last_initial(properties, i) ==
    IF i < 1 THEN None
    ELSE IF is_initial_content_property(properties[i].name)
         THEN Some(properties[i].value)
         ELSE find_last_initial(properties, i - 1)

get_initial_content_last(properties) == find_last_initial(properties, Len(properties))

get_initial_content(properties) == find_initial(properties, 1)

\* the property pass keeping only the last property of each name
property_calls_merged(properties) ==
    LET idx == {i \in DOMAIN properties :
                   /\ ~is_initial_content_property(properties[i].name)
                   /\ \A j \in DOMAIN properties :
                         j > i => properties[j].name # properties[i].name}
        pick[n \in 0..Cardinality(idx)] ==
            IF n = 0 THEN 0
            ELSE CHOOSE i \in idx : i > pick[n - 1]
                                    /\ \A j \in idx : j > pick[n - 1] => i <= j
    IN [n \in 1..Cardinality(idx) |->
           [method |-> properties[pick[n]].name, arg |-> properties[pick[n]].value]]

\* the filter_map over component.properties: .#method_name(#value)
property_calls_of(properties) ==
    LET kept == SelectSeq(properties,
                          LAMBDA p : ~is_initial_content_property(p.name))
    IN [i \in 1..Len(kept) |-> [method |-> kept[i].name, arg |-> kept[i].value]]

RECURSIVE generate_component_reversed(_, _)
\* generate_component attaching the children last to first
generate_component_reversed(component, depth) ==
    [builder_fn   |-> component_type_to_builder(component.component_type),
     builder_args |-> get_initial_content(component.properties),
     property_calls |-> property_calls_of(component.properties),
     child_calls  |->
        [i \in 1..Len(component.children) |->
            LET child == component.children[Len(component.children) + 1 - i] IN
            IF child.kind = "Component"
            THEN [kind |-> "code",
                  code |-> generate_component_reversed(child.block, depth + 1),
                  expr |-> <<>>]
            ELSE [kind |-> "expr", code |-> NoCode, expr |-> child.expr]]]

RECURSIVE generate_component(_, _)
generate_component(component, depth) ==
    [builder_fn   |-> component_type_to_builder(component.component_type),
     builder_args |-> get_initial_content(component.properties),
     property_calls |-> property_calls_of(component.properties),
     child_calls  |->
        [i \in 1..Len(component.children) |->
            LET child == component.children[i] IN
            IF child.kind = "Component"
            THEN [kind |-> "code",
                  code |-> generate_component(child.block, depth + 1),
                  expr |-> <<>>]
            ELSE [kind |-> "expr", code |-> NoCode, expr |-> child.expr]]]

\* `let mut id_counter = 0u32; let root = #component_code; IRDocument::new(root)`
generate_code(component) ==
    [id_counter |-> 0, root |-> generate_component(component, 0)]

NoExpansion == [id_counter |-> 0, root |-> NoCode]

(***************************************************************************)
(* The expansion in evaluation order: a method chain evaluates its         *)
(* receiver, then each call's argument, then the call.                     *)
(***************************************************************************)
Ins(op, name, args) == [op |-> op, name |-> name, args |-> args]

RECURSIVE Flatten(_)
Flatten(seqs) == IF seqs = <<>> THEN <<>> ELSE Head(seqs) \o Flatten(Drop(seqs, 1))

\* `let component_id = #id_counter; #id_counter += 1;`
PrologueIdFirst == <<Ins("let_id", <<>>, <<>>), Ins("inc", <<>>, <<>>)>>

\* `#id_counter += 1; let component_id = #id_counter;`
Prologue == <<Ins("inc", <<>>, <<>>), Ins("let_id", <<>>, <<>>)>>

RECURSIVE BlockCodeChildrenFirst(_)
\* a chain that appends the children before it calls the setters
BlockCodeChildrenFirst(c) ==
    Prologue
    \o <<Ins("ctor", c.builder_fn, c.builder_args)>>
    \o Flatten([i \in 1..Len(c.child_calls) |->
            IF c.child_calls[i].kind = "code"
            THEN BlockCodeChildrenFirst(c.child_calls[i].code) \o <<Ins("child", <<>>, <<>>)>>
            ELSE <<Ins("eval", <<>>, <<c.child_calls[i].expr>>),
                   Ins("child", <<>>, <<>>)>>])
    \o [i \in 1..Len(c.property_calls) |->
            Ins("set", c.property_calls[i].method, <<c.property_calls[i].arg>>)]
    \o <<Ins("build", <<>>, <<>>)>>

RECURSIVE BlockCode(_)
BlockCode(c) ==
    Prologue
    \o <<Ins("ctor", c.builder_fn, c.builder_args)>>
    \o [i \in 1..Len(c.property_calls) |->
            Ins("set", c.property_calls[i].method, <<c.property_calls[i].arg>>)]
    \o Flatten([i \in 1..Len(c.child_calls) |->
            IF c.child_calls[i].kind = "code"
            THEN BlockCode(c.child_calls[i].code) \o <<Ins("child", <<>>, <<>>)>>
            ELSE <<Ins("eval", <<>>, <<c.child_calls[i].expr>>),
                   Ins("child", <<>>, <<>>)>>])
    \o <<Ins("build", <<>>, <<>>)>>

Program(gen) ==
    <<Ins("init_counter", <<>>, <<>>)>> \o BlockCode(gen.root)
    \o <<Ins("new_doc", <<>>, <<>>)>>


(***************************************************************************)
(* ir.rs: IRComponent, ComponentType, IRDocument                           *)
(***************************************************************************)
ComponentTypeNames ==
    {"Container", "Row", "Column", "Center", "Text", "Button", "Input",
     "Checkbox", "TabGroup", "TabBar", "Tab", "TabContent", "TabPanel",
     "Table", "TableRow", "TableCell", "Dropdown", "Scrollable"}

CT(variant) == [variant |-> variant]

OptionalFields ==
    {"width", "height", "padding", "margin", "gap", "justify_content",
     "align_items", "flex_grow", "flex_shrink", "background", "color",
     "opacity", "font_size", "content", "text", "placeholder", "window_title"}

\* IRComponent::default()
DefaultComponent ==
    [id |-> 0, component_type |-> CT("Container"),
     width |-> None, height |-> None, padding |-> None, margin |-> None,
     gap |-> None, justify_content |-> None, align_items |-> None,
     flex_grow |-> None, flex_shrink |-> None, background |-> None,
     color |-> None, opacity |-> None, font_size |-> None, content |-> None,
     text |-> None, placeholder |-> None, window_title |-> None,
     children |-> <<>>]

\* a constructor stamping an older format version
IRDocument_new_v2(root) ==
    [format_version |-> "2.0",
     component_definitions |-> <<>>,
     root |-> root,
     logic |-> [functions |-> <<>>, event_bindings |-> <<>>],
     reactive_manifest |-> [variables |-> <<>>]]

\* IRDocument::new
IRDocument_new(root) ==
    [format_version |-> "3.0",
     component_definitions |-> <<>>,
     root |-> root,
     logic |-> [functions |-> <<>>, event_bindings |-> <<>>],
     reactive_manifest |-> [variables |-> <<>>]]

NoDoc == [format_version |-> "", component_definitions |-> <<>>,
          root |-> DefaultComponent,
          logic |-> [functions |-> <<>>, event_bindings |-> <<>>],
          reactive_manifest |-> [variables |-> <<>>]]

(***************************************************************************)
(* builder.rs: the five builders and their convenience constructors        *)
(***************************************************************************)
LayoutFields ==
    {"width", "height", "padding", "margin", "gap", "background", "color",
     "justify_content", "align_items", "flex_grow", "flex_shrink", "opacity"}
TextFields   == {"font_size", "color", "opacity"}
ButtonFields == {"width", "height", "padding", "background", "color", "opacity"}

\* the constructors in scope through kryon::prelude
Builders == {n_container, n_row, n_column, n_text, n_button}

\* per constructor: the node type it builds, its argument count, the field its
\* argument fills, its setters and whether it has .child()
BuilderInfo(fn) ==
    CASE fn = n_container ->
            [type |-> "Container", arity |-> 0, required |-> "", fields |-> LayoutFields,
             has_child |-> TRUE]
      [] fn = n_row ->
            [type |-> "Row", arity |-> 0, required |-> "", fields |-> LayoutFields,
             has_child |-> TRUE]
      [] fn = n_column ->
            [type |-> "Column", arity |-> 0, required |-> "", fields |-> LayoutFields,
             has_child |-> TRUE]
      [] fn = n_text ->
            [type |-> "Text", arity |-> 1, required |-> "content", fields |-> TextFields,
             has_child |-> FALSE]
      [] fn = n_button ->
            [type |-> "Button", arity |-> 1, required |-> "text", fields |-> ButtonFields,
             has_child |-> FALSE]

\* setter method name -> builder field
MethodTable ==
    {<<n_width, "width">>, <<n_height, "height">>, <<n_background, "background">>,
     <<n_color, "color">>, <<n_padding, "padding">>, <<n_margin, "margin">>,
     <<n_gap, "gap">>, <<n_justify_content, "justify_content">>,
     <<n_align_items, "align_items">>, <<n_flex_grow, "flex_grow">>,
     <<n_flex_shrink, "flex_shrink">>, <<n_opacity, "opacity">>,
     <<n_font_size, "font_size">>}

FieldOfMethod(m) ==
    IF \E e \in MethodTable : e[1] = m
    THEN (CHOOSE e \in MethodTable : e[1] = m)[2]
    ELSE ""

NoBuilder == [fn |-> <<>>, f |-> <<>>, children |-> <<>>]

\* container() / row() / column() / text(content) / button(text)
NewBuilder(fn, args) ==
    LET info == BuilderInfo(fn) IN
    [fn |-> fn,
     f  |-> [x \in info.fields \cup (IF info.arity = 1 THEN {info.required} ELSE {}) |->
                IF x = info.required THEN args[1] ELSE None],
     children |-> <<>>]

\* the setters of impl_builder_methods!, TextBuilder and ButtonBuilder
ApplySetter(b, m, v) ==
    LET x == FieldOfMethod(m) IN
    [b EXCEPT !.f[x] =
        IF x \in {"justify_content", "align_items"}
        THEN Some([kind |-> "Constant", v |-> v])
        ELSE Some(v)]

\* XBuilder::child
AddChild(b, child) == [b EXCEPT !.children = Append(@, child)]

\* build() always yielding a Container node
BuildAsContainer(b, id) ==
    [x \in DOMAIN DefaultComponent |->
        IF x = "id" THEN id
        ELSE IF x = "children" THEN b.children
        ELSE IF x \in DOMAIN b.f THEN b.f[x]
        ELSE DefaultComponent[x]]

\* XBuilder::build(self, id)
Build(b, id) ==
    LET info == BuilderInfo(b.fn) IN
    [x \in DOMAIN DefaultComponent |->
        IF x = "id" THEN id
        ELSE IF x = "component_type" THEN CT(info.type)
        ELSE IF x = "children" THEN b.children
        ELSE IF x = info.required THEN Some(b.f[x])
        ELSE IF x \in info.fields THEN b.f[x]
        ELSE DefaultComponent[x]]

(***************************************************************************)
(* What the host compiler makes of the expansion.  Paths are taken to name *)
(* values of the type their use needs; a literal is no IRComponent.        *)
(***************************************************************************)
\* what a child expression is to .child(IRComponent)
ChildExprKind(e) ==
    CASE e[1].k \in {"ident", "pathsep"} /\ e[Len(e)].k = "ident" -> "component"
      [] e[1].k = "kw" -> "diverges"
      [] OTHER -> "mismatch"

RECURSIVE Unresolved(_)
\* some constructor call of c names no builder
Unresolved(c) ==
    \/ c.builder_fn \notin Builders
    \/ \E i \in DOMAIN c.child_calls :
          c.child_calls[i].kind = "code" /\ Unresolved(c.child_calls[i].code)

RECURSIVE TypeChecks(_)
TypeChecks(c) ==
    /\ c.builder_fn \in Builders
    /\ LET info == BuilderInfo(c.builder_fn) IN
       /\ Len(c.builder_args) = info.arity
       /\ \A i \in DOMAIN c.property_calls :
             FieldOfMethod(c.property_calls[i].method) \in info.fields
       /\ c.child_calls # <<>> => info.has_child
       /\ \A i \in DOMAIN c.child_calls :
             IF c.child_calls[i].kind = "code"
             THEN TypeChecks(c.child_calls[i].code)
             ELSE ChildExprKind(c.child_calls[i].expr) # "mismatch"

\* the IRComponent values an opaque child expression may evaluate to
HostValues ==
    {[DefaultComponent EXCEPT !.id = i, !.component_type = CT("Text"),
                              !.content = Some(<<Tk("lit", <<"v">>)>>)] : i \in {1, 9}}


(***************************************************************************)
(* ir.rs: serde's view of the document.  A JSON value is [t, v]: null, a   *)
(* string, a number, an array (a sequence) or an object (a function from   *)
(* its keys to values).  The value of a scalar field is the expression it  *)
(* was set from.                                                           *)
(***************************************************************************)
J(t, v)  == [t |-> t, v |-> v]
JNull    == J("null", <<>>)
JStr(s)  == J("str", s)
JNum(n)  == J("num", n)
JArr(a)  == J("arr", a)
JObj(o)  == J("obj", o)

\* #[serde(rename = ...)] on the fields of IRComponent
JsonKey(field) ==
    CASE field = "component_type"  -> "type"
      [] field = "justify_content" -> "justifyContent"
      [] field = "align_items"     -> "alignItems"
      [] field = "flex_grow"       -> "flexGrow"
      [] field = "flex_shrink"     -> "flexShrink"
      [] field = "font_size"       -> "fontSize"
      [] field = "window_title"    -> "windowTitle"
      [] OTHER                     -> field

FieldOfKey(key) == CHOOSE f \in DOMAIN DefaultComponent : JsonKey(f) = key

AlignmentFields == {"justify_content", "align_items"}
F32Fields       == {"padding", "margin", "gap", "opacity", "font_size"}
U8Fields        == {"flex_grow", "flex_shrink"}
StringFields    == OptionalFields \ (AlignmentFields \cup F32Fields \cup U8Fields)

F32_INFINITY == <<Id(<<"f","3","2">>), PathSep, Id(<<"I","N","F","I","N","I","T","Y">>)>>
F32_NAN      == <<Id(<<"f","3","2">>), PathSep, Id(<<"N","A","N">>)>>

\* serde_json's serialize_f32 asks value.classify(): Nan and Infinite are
\* written as null
is_finite(v) == v \notin {F32_INFINITY, F32_NAN}

\* #[serde(rename_all = "lowercase")] and the two renames of Alignment
AlignmentJson ==
    {<<"Start", "start">>, <<"Center", "center">>, <<"End", "end">>,
     <<"SpaceBetween", "space-between">>, <<"SpaceAround", "space-around">>}

\* #[serde(untagged)] AlignmentValue
alignment_to_json(a) ==
    IF a.kind = "Constant"
    THEN JStr((CHOOSE e \in AlignmentJson : e[1] = a.v.variant)[2])
    ELSE JObj([var |-> JStr(a.var)])

\* the value of a field that is Some(v)
field_to_json(f, v) ==
    CASE f \in AlignmentFields -> alignment_to_json(v)
      [] f \in F32Fields       -> IF is_finite(v) THEN JNum(v) ELSE JNull
      [] f \in U8Fields        -> JNum(v)
      [] OTHER                 -> JStr(v)

\* the keys written for a component, one for every field were
\* skip_serializing_if not there
KeysWithoutSkip(c) == {"id", "type", "children"} \cup {JsonKey(f) : f \in OptionalFields}

\* skip_serializing_if = "Option::is_none" and "Vec::is_empty"
KeysWritten(c) ==
    {"id", "type"}
    \cup {JsonKey(f) : f \in {g \in OptionalFields : c[g] # None}}
    \cup (IF c.children # <<>> THEN {"children"} ELSE {})

RECURSIVE component_to_json(_)
component_to_json(c) ==
    JObj([k \in KeysWritten(c) |->
            CASE k = "id"       -> JNum(c.id)
              [] k = "type"     -> JStr(c.component_type.variant)
              [] k = "children" ->
                   JArr([i \in 1..Len(c.children) |-> component_to_json(c.children[i])])
              [] OTHER ->
                   \* Option<T>: serialize_none writes null
                   IF c[FieldOfKey(k)] = None THEN JNull
                   ELSE field_to_json(FieldOfKey(k), c[FieldOfKey(k)][1])])

\* Logic: functions is a map from names to strings
logic_to_json(l) ==
    JObj([functions |-> JObj([n \in DOMAIN l.functions |-> JStr(l.functions[n])]),
          event_bindings |->
             JArr([i \in 1..Len(l.event_bindings) |->
                     JObj([component_id |-> JNum(l.event_bindings[i].component_id),
                           event_type   |-> JStr(l.event_bindings[i].event_type),
                           handler      |-> JStr(l.event_bindings[i].handler)])])])

\* ReactiveManifest: initial_value is a serde_json::Value, written as it is
manifest_to_json(m) ==
    JObj([variables |->
             JArr([i \in 1..Len(m.variables) |->
                     JObj([id            |-> JStr(m.variables[i].id),
                           var_type      |-> JStr(m.variables[i].var_type),
                           initial_value |-> m.variables[i].initial_value])])])

\* IRDocument::to_json
doc_to_json(d) ==
    LET keys == {"format_version", "root", "logic", "reactive_manifest"}
                \cup (IF d.component_definitions # <<>>
                      THEN {"component_definitions"} ELSE {})
    IN JObj([k \in keys |->
          CASE k = "format_version" -> JStr(d.format_version)
            [] k = "root" -> component_to_json(d.root)
            [] k = "logic" -> logic_to_json(d.logic)
            [] k = "reactive_manifest" -> manifest_to_json(d.reactive_manifest)
            [] OTHER ->
                 JArr([i \in 1..Len(d.component_definitions) |->
                     JObj([name |-> JStr(d.component_definitions[i].name),
                           template |->
                              component_to_json(d.component_definitions[i].template)])])])

Has(j, k) == k \in DOMAIN j.v
HasA(j, k, t) == k \in DOMAIN j.v /\ j.v[k].t = t

\* a unit variant read by a derived Deserialize: its name as a string, or
\* an object with the name as its one key and null as the value
unit_variant_ok(j, names) ==
    \/ j.t = "str" /\ j.v \in names
    \/ j.t = "obj" /\ \E n \in names : DOMAIN j.v = {n} /\ j.v[n].t = "null"

unit_variant_name(j) ==
    IF j.t = "str" THEN j.v ELSE CHOOSE n \in DOMAIN j.v : TRUE

\* Alignment, by the names it is written with
constant_ok(j) == unit_variant_ok(j, {e[2] : e \in AlignmentJson})

\* Variable { var }: a struct is read from an object, or from the array of
\* its fields in order
variable_ok(j) ==
    \/ j.t = "obj" /\ HasA(j, "var", "str")
    \/ j.t = "arr" /\ Len(j.v) = 1 /\ j.v[1].t = "str"

\* the untagged enum: Constant(Alignment) is tried first, then Variable { var }
alignment_ok(j) == constant_ok(j) \/ variable_ok(j)

alignment_from_json(j) ==
    IF constant_ok(j)
    THEN [kind |-> "Constant",
          v |-> [variant |->
                   (CHOOSE e \in AlignmentJson : e[2] = unit_variant_name(j))[1]]]
    ELSE [kind |-> "Variable",
          var |-> IF j.t = "obj" THEN j.v["var"].v ELSE j.v[1].v]

\* an Option field whose key is present: null is None, anything else must
\* have the type of the field
field_ok(f, j) ==
    \/ j.t = "null"
    \/ CASE f \in AlignmentFields -> alignment_ok(j)
         [] f \in F32Fields       -> j.t = "num"
         [] f \in U8Fields        -> j.t = "num"
         [] OTHER                 -> j.t = "str"

field_from_json(f, j) ==
    IF j.t = "null" THEN None
    ELSE Some(IF f \in AlignmentFields THEN alignment_from_json(j) ELSE j.v)

\* a deserializer taking an unknown type name for the default type
type_ok_lenient(j) == j.t = "str"

\* the unit variants of ComponentType, by name
type_ok(j) == unit_variant_ok(j, ComponentTypeNames)

type_from_json(j) == CT(unit_variant_name(j))

RECURSIVE component_json_ok(_)
\* whether serde accepts j as an IRComponent: id and type have no default
component_json_ok(j) ==
    /\ j.t = "obj"
    /\ HasA(j, "id", "num") /\ j.v["id"].v >= 0
    /\ Has(j, "type") /\ type_ok(j.v["type"])
    /\ \A f \in OptionalFields :
          Has(j, JsonKey(f)) => field_ok(f, j.v[JsonKey(f)])
    /\ Has(j, "children") =>
          /\ j.v["children"].t = "arr"
          /\ \A i \in DOMAIN j.v["children"].v : component_json_ok(j.v["children"].v[i])

RECURSIVE component_from_json(_)
component_from_json(j) ==
    [x \in DOMAIN DefaultComponent |->
        CASE x = "id" -> j.v["id"].v
          [] x = "component_type" -> type_from_json(j.v["type"])
          [] x = "children" ->
               IF Has(j, "children")
               THEN [i \in 1..Len(j.v["children"].v) |->
                        component_from_json(j.v["children"].v[i])]
               ELSE <<>>
          [] OTHER ->
               IF Has(j, JsonKey(x))
               THEN field_from_json(x, j.v[JsonKey(x)])
               ELSE None]

definitions_ok(j) ==
    /\ j.t = "arr"
    /\ \A i \in DOMAIN j.v :
          /\ j.v[i].t = "obj"
          /\ HasA(j.v[i], "name", "str")
          /\ Has(j.v[i], "template") /\ component_json_ok(j.v[i].v["template"])

\* #[serde(default)] on both fields of Logic
logic_ok(j) ==
    /\ j.t = "obj"
    /\ Has(j, "functions") =>
          /\ j.v["functions"].t = "obj"
          /\ \A n \in DOMAIN j.v["functions"].v : j.v["functions"].v[n].t = "str"
    /\ Has(j, "event_bindings") =>
          /\ j.v["event_bindings"].t = "arr"
          /\ \A i \in DOMAIN j.v["event_bindings"].v :
                LET b == j.v["event_bindings"].v[i] IN
                /\ b.t = "obj"
                /\ HasA(b, "component_id", "num")
                /\ HasA(b, "event_type", "str")
                /\ HasA(b, "handler", "str")

logic_from_json(j) ==
    [functions |->
        IF Has(j, "functions")
        THEN [n \in DOMAIN j.v["functions"].v |-> j.v["functions"].v[n].v]
        ELSE <<>>,
     event_bindings |->
        IF Has(j, "event_bindings")
        THEN [i \in 1..Len(j.v["event_bindings"].v) |->
                [component_id |-> j.v["event_bindings"].v[i].v["component_id"].v,
                 event_type   |-> j.v["event_bindings"].v[i].v["event_type"].v,
                 handler      |-> j.v["event_bindings"].v[i].v["handler"].v]]
        ELSE <<>>]

\* #[serde(default)] on variables
manifest_ok(j) ==
    /\ j.t = "obj"
    /\ Has(j, "variables") =>
          /\ j.v["variables"].t = "arr"
          /\ \A i \in DOMAIN j.v["variables"].v :
                LET x == j.v["variables"].v[i] IN
                /\ x.t = "obj"
                /\ HasA(x, "id", "str")
                /\ HasA(x, "var_type", "str")
                /\ Has(x, "initial_value")

manifest_from_json(j) ==
    [variables |->
        IF Has(j, "variables")
        THEN [i \in 1..Len(j.v["variables"].v) |->
                [id            |-> j.v["variables"].v[i].v["id"].v,
                 var_type      |-> j.v["variables"].v[i].v["var_type"].v,
                 initial_value |-> j.v["variables"].v[i].v["initial_value"]]]
        ELSE <<>>]

\* a reader that insists on the logic and reactive_manifest sections
sections_required(j) == Has(j, "logic") /\ Has(j, "reactive_manifest")

\* #[serde(default)] on component_definitions, logic and reactive_manifest:
\* no section has to be there
sections_present(j) == TRUE

\* whether serde accepts j as an IRDocument: format_version and root have no default
doc_json_ok(j) ==
    /\ j.t = "obj"
    /\ HasA(j, "format_version", "str")
    /\ Has(j, "root") /\ component_json_ok(j.v["root"])
    /\ sections_present(j)
    /\ Has(j, "component_definitions") => definitions_ok(j.v["component_definitions"])
    /\ Has(j, "logic") => logic_ok(j.v["logic"])
    /\ Has(j, "reactive_manifest") => manifest_ok(j.v["reactive_manifest"])

\* IRDocument::from_json on an accepted document
doc_from_json(j) ==
    [format_version |-> j.v["format_version"].v,
     component_definitions |->
        IF Has(j, "component_definitions")
        THEN [i \in 1..Len(j.v["component_definitions"].v) |->
                [name |-> j.v["component_definitions"].v[i].v["name"].v,
                 template |->
                    component_from_json(j.v["component_definitions"].v[i].v["template"])]]
        ELSE <<>>,
     root |-> component_from_json(j.v["root"]),
     logic |->
        IF Has(j, "logic") THEN logic_from_json(j.v["logic"])
        ELSE [functions |-> <<>>, event_bindings |-> <<>>],
     reactive_manifest |->
        IF Has(j, "reactive_manifest")
        THEN manifest_from_json(j.v["reactive_manifest"])
        ELSE [variables |-> <<>>]]

(***************************************************************************)
(* The pipeline after the parser                                           *)
(***************************************************************************)
parseVars == <<input, pstack, branch, look, parsed>>
runVars   == <<ip, id_counter, rstack, value>>
outVars   == <<doc, json, doc2>>

\* kryon_app: codegen::generate_code(&component_block)
Generate ==
    /\ pc = "generate"
    /\ code' = generate_code(parsed.block)
    /\ pc' = "compile"
    /\ UNCHANGED <<parseVars, runVars, outVars, nameVars, rxVars, libVars>>

\* the host compiler type-checks the expansion
Compile ==
    /\ pc = "compile"
    /\ pc' = IF TypeChecks(code.root) THEN "run" ELSE "compile_error"
    /\ UNCHANGED <<parseVars, code, runVars, outVars, nameVars, rxVars, libVars>>

Instr == Program(code)[ip]
RTop == rstack[Len(rstack)]
SetRTop(f) == [rstack EXCEPT ![Len(rstack)] = f]
Step(op) == pc = "run" /\ Instr.op = op /\ ip' = ip + 1

\* let mut id_counter = 0u32;
RunInitCounter ==
    /\ Step("init_counter")
    /\ id_counter' = code.id_counter
    /\ UNCHANGED <<parseVars, code, pc, rstack, value, outVars, nameVars, rxVars, libVars>>

\* #id_counter += 1;
RunInc ==
    /\ Step("inc")
    /\ id_counter' = id_counter + 1
    /\ UNCHANGED <<parseVars, code, pc, rstack, value, outVars, nameVars, rxVars, libVars>>

\* let component_id = #id_counter;
RunLetId ==
    /\ Step("let_id")
    /\ rstack' = Append(rstack, [component_id |-> id_counter, builder |-> NoBuilder])
    /\ UNCHANGED <<parseVars, code, pc, id_counter, value, outVars, nameVars, rxVars, libVars>>

\* #builder_fn(#content_expr) or #builder_fn()
RunCtor ==
    /\ Step("ctor")
    /\ rstack' = SetRTop([RTop EXCEPT !.builder = NewBuilder(Instr.name, Instr.args)])
    /\ UNCHANGED <<parseVars, code, pc, id_counter, value, outVars, nameVars, rxVars, libVars>>

\* .#method_name(#value)
RunSet ==
    /\ Step("set")
    /\ rstack' = SetRTop([RTop EXCEPT
                            !.builder = ApplySetter(@, Instr.name, Instr.args[1])])
    /\ UNCHANGED <<parseVars, code, pc, id_counter, value, outVars, nameVars, rxVars, libVars>>

\* the argument of .child(#expr): the host evaluates the opaque expression
RunEval ==
    /\ pc = "run" /\ Instr.op = "eval"
    /\ IF ChildExprKind(Instr.args[1]) = "diverges"
       THEN /\ pc' = "diverged"
            /\ UNCHANGED <<ip, value>>
       ELSE /\ \E v \in HostValues : value' = v
            /\ ip' = ip + 1
            /\ pc' = pc
    /\ UNCHANGED <<parseVars, code, id_counter, rstack, outVars, nameVars, rxVars, libVars>>

\* .child(..) on the enclosing builder
RunChild ==
    /\ Step("child")
    /\ rstack' = SetRTop([RTop EXCEPT !.builder = AddChild(@, value)])
    /\ UNCHANGED <<parseVars, code, pc, id_counter, value, outVars, nameVars, rxVars, libVars>>

\* .build(component_id): the block's value
RunBuild ==
    /\ Step("build")
    /\ value' = Build(RTop.builder, RTop.component_id)
    /\ rstack' = SubSeq(rstack, 1, Len(rstack) - 1)
    /\ UNCHANGED <<parseVars, code, pc, id_counter, outVars, nameVars, rxVars, libVars>>

\* let doc = IRDocument::new(root); doc
RunNewDoc ==
    /\ pc = "run" /\ Instr.op = "new_doc"
    /\ doc' = IRDocument_new(value)
    /\ pc' = "serialize"
    /\ UNCHANGED <<parseVars, code, runVars, json, doc2, nameVars, rxVars, libVars>>

\* doc.to_json()
Serialize ==
    /\ pc = "serialize"
    /\ json' = doc_to_json(doc)
    /\ pc' = "deserialize"
    /\ UNCHANGED <<parseVars, code, runVars, doc, doc2, nameVars, rxVars, libVars>>

\* IRDocument::from_json(&json)
Deserialize ==
    /\ pc = "deserialize"
    /\ IF doc_json_ok(json)
       THEN doc2' = doc_from_json(json) /\ pc' = "done"
       ELSE doc2' = doc2 /\ pc' = "json_error"
    /\ UNCHANGED <<parseVars, code, runVars, doc, json, nameVars, rxVars, libVars>>

RunNext == RunInitCounter \/ RunInc \/ RunLetId \/ RunCtor \/ RunSet
           \/ RunEval \/ RunChild \/ RunBuild \/ RunNewDoc

PipelineNext == ParseNext \/ Generate \/ Compile \/ RunNext \/ Serialize \/ Deserialize


(***************************************************************************)
(* The name functions on their own                                         *)
(***************************************************************************)
\* to_snake_case(&name)
Normalize ==
    /\ nm_pc = "start"
    /\ nm_out' = to_snake_case(nm_in)
    /\ nm_pc' = "normalized"
    /\ UNCHANGED <<nm_in, nm_again, nm_builder, pipeVars, rxVars, libVars>>

\* to_snake_case of the normalized name
Renormalize ==
    /\ nm_pc = "normalized"
    /\ nm_again' = to_snake_case(nm_out)
    /\ nm_pc' = "renormalized"
    /\ UNCHANGED <<nm_in, nm_out, nm_builder, pipeVars, rxVars, libVars>>

\* component_type_to_builder(&component.component_type)
Resolve ==
    /\ nm_pc = "renormalized"
    /\ nm_builder' = component_type_to_builder(nm_in)
    /\ nm_pc' = "resolved"
    /\ UNCHANGED <<nm_in, nm_out, nm_again, pipeVars, rxVars, libVars>>

NameNext == Normalize \/ Renormalize \/ Resolve

(***************************************************************************)
(* reactive.rs: the analysis of one expression.  A syn::Expr is a tree of  *)
(* nodes [kind, name, sub, tokens]: sub holds the sub-expressions in field *)
(* order, tokens what is written between the delimiters of a macro call,   *)
(* which syn keeps as an unparsed token stream.                            *)
(***************************************************************************)
Node(kind, name, sub, tokens) ==
    [kind |-> kind, name |-> name, sub |-> sub, tokens |-> tokens]

ExprLit(v)          == Node("Lit", <<v>>, <<>>, <<>>)
ExprPath(segments)  == Node("Path", segments, <<>>, <<>>)
ExprMethodCall(receiver, method, args) ==
    Node("MethodCall", <<method>>, <<receiver>> \o args, <<>>)
ExprParen(e)        == Node("Paren", <<>>, <<e>>, <<>>)
ExprBinary(l, r)    == Node("Binary", <<>>, <<l, r>>, <<>>)
ExprMacro(path, written) == Node("Macro", <<path>>, <<>>, written)

\* syn::Path::get_ident: the path is one plain segment
get_ident(path) == IF Len(path.name) = 1 THEN Some(path.name[1]) ELSE None

\* SignalVisitor::new
SignalVisitor_new == [signal_vars |-> <<>>, has_get_calls |-> FALSE]

\* a visitor that also walks the tokens of a macro call
SubExprsWithMacroTokens(node) == node.sub \o node.tokens

\* the sub-expressions syn::visit walks below a node: Visit::visit_macro
\* visits the macro's path and leaves its tokens alone
SubExprs(node) == node.sub

\* visit_expr_method_call pushing the receiver without the duplicate test
visit_expr_method_call_push(node, v) ==
    IF node.name # <<"get">> THEN v
    ELSE LET receiver == node.sub[1]
             ident == IF receiver.kind = "Path" THEN get_ident(receiver) ELSE None
         IN [has_get_calls |-> TRUE,
             signal_vars |-> IF ident # None
                             THEN Append(v.signal_vars, ident[1])
                             ELSE v.signal_vars]

\* the body of SignalVisitor::visit_expr_method_call before it walks on
visit_expr_method_call(node, v) ==
    IF node.name # <<"get">> THEN v
    ELSE LET receiver == node.sub[1]
             ident == IF receiver.kind = "Path" THEN get_ident(receiver) ELSE None
         IN [has_get_calls |-> TRUE,
             signal_vars |->
                IF /\ ident # None
                   /\ ~\E i \in DOMAIN v.signal_vars : v.signal_vars[i] = ident[1]
                THEN Append(v.signal_vars, ident[1])
                ELSE v.signal_vars]

RECURSIVE visit_expr(_, _)
\* Visit::visit_expr with the override above: the node first, then what is below
visit_expr(node, v) ==
    LET here == IF node.kind = "MethodCall" THEN visit_expr_method_call(node, v) ELSE v
        below == SubExprs(node)
        walk[i \in 0..Len(below)] ==
            IF i = 0 THEN here ELSE visit_expr(below[i], walk[i - 1])
    IN walk[Len(below)]

analyze_reactive_expr(expr) == visit_expr(expr, SignalVisitor_new)

RECURSIVE HasMethodCall(_)
HasMethodCall(expr) ==
    expr.kind = "MethodCall" \/ \E i \in DOMAIN expr.sub : HasMethodCall(expr.sub[i])

\* is_reactive_expr taking any method call for a signal read
is_reactive_expr_any_call(expr) == HasMethodCall(expr)

is_reactive_expr(expr) ==
    LET info == analyze_reactive_expr(expr) IN
    info.signal_vars # <<>> \/ info.has_get_calls

\* Some(quote! { two comments }): an empty token stream
generate_reactive_binding(expr, info) ==
    IF info.signal_vars = <<>> THEN None ELSE Some(<<>>)

\* |<signal_var>_value| { #expr }
transform_expr_for_reactive(expr, signal_var) ==
    [param |-> <<signal_var, "_value">>, body |-> expr]

NoInfo == SignalVisitor_new

Analyze ==
    /\ rx_pc = "start"
    /\ rx_info' = analyze_reactive_expr(rx_expr)
    /\ rx_pc' = "analyzed"
    /\ UNCHANGED <<rx_expr, rx_reactive, rx_binding, rx_code, pipeVars, nameVars, libVars>>

CheckReactive ==
    /\ rx_pc = "analyzed"
    /\ rx_reactive' = is_reactive_expr(rx_expr)
    /\ rx_pc' = "checked"
    /\ UNCHANGED <<rx_expr, rx_info, rx_binding, rx_code, pipeVars, nameVars, libVars>>

Bind ==
    /\ rx_pc = "checked"
    /\ rx_binding' = generate_reactive_binding(rx_expr, rx_info)
    /\ rx_pc' = "bound"
    /\ UNCHANGED <<rx_expr, rx_info, rx_reactive, rx_code, pipeVars, nameVars, libVars>>

\* generate_component on the block Column { width: <rx_expr> }
EmitProperty ==
    /\ rx_pc = "bound"
    /\ rx_code' = generate_component(
                     [component_type |-> N_Column,
                      properties |-> <<[name |-> n_width, value |-> rx_expr]>>,
                      children |-> <<>>], 0)
    /\ rx_pc' = "emitted"
    /\ UNCHANGED <<rx_expr, rx_info, rx_reactive, rx_binding, pipeVars, nameVars, libVars>>

RxNext == Analyze \/ CheckReactive \/ Bind \/ EmitProperty

(***************************************************************************)
(* dimension.rs.  A string is a sequence of one-character strings.  An f32 *)
(* is [k, neg, m, e]: the finite value (-1)^neg * m / 10^e with m not      *)
(* ending in a zero that e could drop, an infinity, or a NaN.              *)
(***************************************************************************)
Digits == <<"0", "1", "2", "3", "4", "5", "6", "7", "8", "9">>
IsDigit(c) == \E i \in 1..10 : Digits[i] = c
DigitValue(c) == (CHOOSE i \in 1..10 : Digits[i] = c) - 1

RECURSIVE Pow10(_)
Pow10(n) == IF n = 0 THEN 1 ELSE 10 * Pow10(n - 1)

RECURSIVE Normal(_, _, _)
\* the value m / 10^e written with the fewest decimal places
Normal(neg, m, e) ==
    IF e > 0 /\ m % 10 = 0 THEN Normal(neg, m \div 10, e - 1)
    ELSE [k |-> "fin", neg |-> neg, m |-> m, e |-> e]

Whole(neg, n) == [k |-> "fin", neg |-> neg, m |-> n, e |-> 0]
Infinite(neg) == [k |-> "inf", neg |-> neg, m |-> 0, e |-> 0]
NaN           == [k |-> "nan", neg |-> FALSE, m |-> 0, e |-> 0]

\* f32's PartialEq: a NaN equals nothing, the two zeros are equal
f32_eq(a, b) ==
    /\ a.k # "nan" /\ b.k # "nan"
    /\ \/ a = b
       \/ a.k = "fin" /\ b.k = "fin" /\ a.m = 0 /\ b.m = 0

RECURSIVE fmt_nat(_)
\* the decimal digits of a natural number
fmt_nat(n) ==
    IF n < 10 THEN <<Digits[n + 1]>> ELSE fmt_nat(n \div 10) \o <<Digits[(n % 10) + 1]>>

RECURSIVE fmt_frac(_, _)
\* the e decimal places of m / 10^e
fmt_frac(m, e) ==
    IF e = 0 THEN <<>> ELSE fmt_frac(m \div 10, e - 1) \o <<Digits[(m % 10) + 1]>>

\* Display for f32 ({}): the shortest decimal that reads back, no point for
\* a whole number
fmt_f32(x) ==
    (IF x.neg THEN <<"-">> ELSE <<>>)
    \o (CASE x.k = "inf" -> <<"i", "n", "f">>
          [] x.k = "nan" -> <<"N", "a", "N">>
          [] OTHER ->
               fmt_nat(x.m \div Pow10(x.e))
               \o (IF x.e = 0 THEN <<>>
                   ELSE <<".">> \o fmt_frac(x.m % Pow10(x.e), x.e)))

to_ascii_lowercase(c) ==
    CASE c = "N" -> "n" [] c = "A" -> "a" [] c = "I" -> "i" [] c = "F" -> "f"
      [] c = "T" -> "t" [] c = "Y" -> "y" [] OTHER -> c

RECURSIVE DigitRun(_, _)
\* the number of digits of s from index i on
DigitRun(s, i) == IF i <= Len(s) /\ IsDigit(s[i]) THEN 1 + DigitRun(s, i + 1) ELSE 0

RECURSIVE NatOf(_, _, _)
\* the value of the digits s[i..j]
NatOf(s, i, j) == IF j < i THEN 0 ELSE NatOf(s, i, j - 1) * 10 + DigitValue(s[j])

F32Err == [ok |-> FALSE, v |-> NaN]
F32Ok(v) == [ok |-> TRUE, v |-> v]

\* <f32 as FromStr>::from_str on strings without an exponent: a sign, then
\* digits with at most one point and one digit at least, or inf, infinity
\* or nan in any case
parse_f32(s) ==
    LET signed == s # <<>> /\ s[1] \in {"-", "+"}
        neg == s # <<>> /\ s[1] = "-"
        a == IF signed THEN 2 ELSE 1
        ni == DigitRun(s, a)
        point == a + ni <= Len(s) /\ s[a + ni] = "."
        nf == IF point THEN DigitRun(s, a + ni + 1) ELSE 0
        end == a + ni + (IF point THEN 1 + nf ELSE 0)
        rest == [i \in 1..(Len(s) - a + 1) |-> to_ascii_lowercase(s[a + i - 1])]
    IN IF ni + nf > 0 /\ end = Len(s) + 1
       THEN F32Ok(Normal(neg,
                         NatOf(s, a, a + ni - 1) * Pow10(nf)
                           + NatOf(s, a + ni + 1, a + ni + nf), nf))
       ELSE IF rest \in {<<"i", "n", "f">>, <<"i", "n", "f", "i", "n", "i", "t", "y">>}
       THEN F32Ok(Infinite(neg))
       ELSE IF rest = <<"n", "a", "n">> THEN F32Ok(NaN)
       ELSE F32Err

Dim(variant, v) == [variant |-> variant, v |-> v]
Dimension_Auto == Dim("Auto", Whole(FALSE, 0))
Dimension_px(x) == Dim("Px", x)

\* #[derive(PartialEq)] on Dimension
dimension_eq(a, b) ==
    /\ a.variant = b.variant
    /\ a.variant # "Auto" => f32_eq(a.v, b.v)

\* impl fmt::Display for Dimension
dimension_to_string(d) ==
    CASE d.variant = "Px"      -> fmt_f32(d.v) \o <<"p", "x">>
      [] d.variant = "Percent" -> fmt_f32(d.v) \o <<"%">>
      [] d.variant = "Auto"    -> <<"a", "u", "t", "o">>
      [] OTHER                 -> fmt_f32(d.v) \o <<"f", "r">>

None_str == [some |-> FALSE, s |-> <<>>]
Some_str(s) == [some |-> TRUE, s |-> s]

\* a strip_suffix that cuts the length of the suffix off any string
strip_suffix_any(s, suffix) ==
    IF Len(s) >= Len(suffix) THEN Some_str(SubSeq(s, 1, Len(s) - Len(suffix)))
    ELSE None_str

\* str::strip_suffix
strip_suffix(s, suffix) ==
    IF Len(s) >= Len(suffix) /\ SubSeq(s, Len(s) - Len(suffix) + 1, Len(s)) = suffix
    THEN Some_str(SubSeq(s, 1, Len(s) - Len(suffix)))
    ELSE None_str

\* one `if let Some(x) = s.strip_suffix(..) { if let Ok(value) = x.parse() ..`
UnitOf(s, suffix) ==
    LET x == strip_suffix(s, suffix) IN
    IF x.some THEN parse_f32(x.s) ELSE F32Err

\* impl From<&str> for Dimension
dimension_from_str(s) ==
    IF s = <<"a", "u", "t", "o">> THEN Dimension_Auto
    ELSE IF UnitOf(s, <<"p", "x">>).ok THEN Dim("Px", UnitOf(s, <<"p", "x">>).v)
    ELSE IF UnitOf(s, <<"%">>).ok THEN Dim("Percent", UnitOf(s, <<"%">>).v)
    ELSE IF UnitOf(s, <<"f", "r">>).ok THEN Dim("Flex", UnitOf(s, <<"f", "r">>).v)
    ELSE Dimension_Auto

NoDimension == Dim("None", Whole(FALSE, 0))

\* d.to_string()
FormatDimension ==
    /\ dm_pc = "format"
    /\ dm_str' = dimension_to_string(dm_dim)
    /\ dm_pc' = "parse"
    /\ UNCHANGED <<dm_dim, dm_out, coreVars, sigVars>>

\* Dimension::from(s)
ParseDimension ==
    /\ dm_pc = "parse"
    /\ dm_out' = dimension_from_str(dm_str)
    /\ dm_pc' = "done"
    /\ UNCHANGED <<dm_dim, dm_str, coreVars, sigVars>>

DimNext == FormatDimension \/ ParseDimension

(***************************************************************************)
(* kryon/src/reactive.rs: Signal<T>.  The two Rc<RefCell<..>> of a handle  *)
(* point at numbered cells.  A subscriber is a closure [kind, tag, f, when,*)
(* to]:                                                                    *)
(*   record  pushes the value it is called with on its own list            *)
(*   derive  the closure derive subscribes: it computes f(value), no more  *)
(*   setter  a record that, called with `when`, calls set(to) on a clone   *)
(*           of the signal                                                 *)
(* Values are u8 numbers below Modulus; closures handed to update and      *)
(* derive use wrapping arithmetic.                                         *)
(***************************************************************************)
Modulus == 3

\* the handles, the subscriptions and the calls one run makes
MaxHandles == 2
MaxSubs == 2
MaxCalls == 2

Closures == {"inc", "twice"}

\* |c| *c = c.wrapping_add(1) and |c| *c = c.wrapping_mul(2), below Modulus
ApplyClosure(f, x) == IF f = "inc" THEN (x + 1) % Modulus ELSE (x * 2) % Modulus

Callback(kind, tag, f, when, to) ==
    [kind |-> kind, tag |-> tag, f |-> f, when |-> when, to |-> to]

\* the closure, with the handle it was subscribed through and the number of
\* calls made before
Subscription(h, callback) ==
    [kind |-> callback.kind, tag |-> callback.tag, f |-> callback.f,
     when |-> callback.when, to |-> callback.to, via |-> h, since |-> Len(sg_calls)]

\* a clone that copies the cells instead of the pointers
Signal_clone_deep(handle, values, subs) ==
    [handle |-> [value |-> Len(values) + 1, subscribers |-> Len(subs) + 1],
     values |-> Append(values, values[handle.value]),
     subs   |-> Append(subs, subs[handle.subscribers])]

\* #[derive(Clone)]: Rc::clone of both pointers, the cells are left alone
Signal_clone(handle, values, subs) ==
    [handle |-> handle, values |-> values, subs |-> subs]

\* Signal::get
Signal_get(handle, values) == values[handle.value]

\* Signal::subscribe: the list after the push, and the index returned
Signal_subscribe(handle, subs, callback) ==
    [subs |-> [subs EXCEPT ![handle.subscribers] = Append(@, callback)],
     ret  |-> Len(subs[handle.subscribers]) + 1 - 1]

\* set_if_changed comparing nothing
ValueChangedAlways(current, new_value) == TRUE

\* `current != new_value`
ValueChanged(current, new_value) == current # new_value

NotifyFrame(call, new_value, handle) ==
    [call |-> call, value |-> new_value, list |-> handle.subscribers,
     cell |-> handle.value, i |-> 1]

CallRecord(op, h, new_value, changed) ==
    [op |-> op, h |-> h, value |-> new_value, changed |-> changed,
     before |-> sg_values[sg_handles[h].value],
     depth |-> Len(sg_stack),
     nsubs |-> Len(sg_subs[sg_handles[h].subscribers])]

SgTop == sg_stack[Len(sg_stack)]
SgIdle == sg_stack = <<>>

\* the handles of the signal a call may be made through
SourceHandles == {h \in DOMAIN sg_handles : h # sg_derived}

\* the store of set, or update's closure, and the entry into notify_subscribers
StartCall(op, h, new_value) ==
    /\ sg_values' = [sg_values EXCEPT ![sg_handles[h].value] = new_value]
    /\ sg_calls' = Append(sg_calls, CallRecord(op, h, new_value, TRUE))
    /\ sg_stack' = Append(sg_stack, NotifyFrame(Len(sg_calls) + 1, new_value, sg_handles[h]))

\* signal.clone()
SignalClone(h) ==
    /\ SgIdle
    /\ Len(sg_handles) < MaxHandles
    /\ LET c == Signal_clone(sg_handles[h], sg_values, sg_subs) IN
       /\ sg_handles' = Append(sg_handles, c.handle)
       /\ sg_values' = c.values
       /\ sg_subs' = c.subs
    /\ UNCHANGED <<sg_derived, sg_stack, sg_calls, sg_logs, sg_ret, coreVars, dimVars>>

\* signal.subscribe(callback) with the given closure
SubscribeWith(h, callback) ==
    /\ SgIdle
    /\ Len(sg_logs) < MaxSubs
    /\ LET r == Signal_subscribe(sg_handles[h], sg_subs, Subscription(h, callback)) IN
       /\ sg_subs' = r.subs
       /\ sg_ret' = [op |-> "subscribe", ret |-> r.ret]
    /\ sg_logs' = Append(sg_logs, <<>>)
    /\ UNCHANGED <<sg_values, sg_handles, sg_derived, sg_stack, sg_calls,
                   coreVars, dimVars>>

\* signal.subscribe(move |value| list.borrow_mut().push(*value))
Subscribe(h) == SubscribeWith(h, Callback("record", Len(sg_logs) + 1, "inc", 0, 0))

\* signal.subscribe(move |value| { list.push(*value); if *value == when { clone.set(to) } })
SubscribeSetter(h, when, to) ==
    /\ h \in SourceHandles
    /\ SubscribeWith(h, Callback("setter", Len(sg_logs) + 1, "inc", when, to))

\* signal.set(new_value) up to the loop of notify_subscribers
SetCall(h, new_value) ==
    /\ SgIdle
    /\ h \in SourceHandles
    /\ Len(sg_calls) < MaxCalls
    /\ StartCall("set", h, new_value)
    /\ UNCHANGED <<sg_subs, sg_handles, sg_derived, sg_logs, sg_ret, coreVars, dimVars>>

\* signal.update(f) up to the loop of notify_subscribers
UpdateCall(h, f) ==
    /\ SgIdle
    /\ h \in SourceHandles
    /\ Len(sg_calls) < MaxCalls
    /\ StartCall("update", h, ApplyClosure(f, Signal_get(sg_handles[h], sg_values)))
    /\ UNCHANGED <<sg_subs, sg_handles, sg_derived, sg_logs, sg_ret, coreVars, dimVars>>

\* signal.set_if_changed(new_value): the comparison, and set up to the loop
SetIfChangedCall(h, new_value) ==
    /\ SgIdle
    /\ h \in SourceHandles
    /\ Len(sg_calls) < MaxCalls
    /\ IF ValueChanged(Signal_get(sg_handles[h], sg_values), new_value)
       THEN /\ StartCall("set_if_changed", h, new_value)
            /\ UNCHANGED sg_ret
       ELSE /\ sg_calls' = Append(sg_calls,
                                  CallRecord("set_if_changed", h, new_value, FALSE))
            /\ sg_ret' = [op |-> "set_if_changed", ret |-> 0]
            /\ UNCHANGED <<sg_values, sg_stack>>
    /\ UNCHANGED <<sg_subs, sg_handles, sg_derived, sg_logs, coreVars, dimVars>>

\* the callback the loop of notify_subscribers is at
SgCallback == sg_subs[SgTop.list][SgTop.i]

\* what a closure that records pushes: the value it was called with, the
\* value the signal held then, and the call that notified it
LogEntry == [v |-> SgTop.value, held |-> sg_values[SgTop.cell], call |-> SgTop.call]

\* a loop that passes over every other subscriber
AdvanceSkipping == [sg_stack EXCEPT ![Len(sg_stack)].i = @ + 2]

\* the loop of notify_subscribers moves to the next subscriber
Advance == [sg_stack EXCEPT ![Len(sg_stack)].i = @ + 1]

\* one iteration of `for callback in subscribers.iter() { callback(value) }`
Notify ==
    /\ ~SgIdle
    /\ SgTop.i <= Len(sg_subs[SgTop.list])
    /\ SgCallback.kind \in {"record", "derive"}
    /\ sg_logs' = IF SgCallback.kind = "record"
                  THEN [sg_logs EXCEPT ![SgCallback.tag] = Append(@, LogEntry)]
                  ELSE sg_logs
    /\ sg_stack' = Advance
    /\ UNCHANGED <<sg_values, sg_subs, sg_handles, sg_derived, sg_calls, sg_ret,
                   coreVars, dimVars>>

\* the iteration for a setter: it records, and called with `when` it calls
\* set(to) on its clone, whose loop runs before this one goes on
NotifySetter ==
    /\ ~SgIdle
    /\ SgTop.i <= Len(sg_subs[SgTop.list])
    /\ SgCallback.kind = "setter"
    /\ sg_logs' = [sg_logs EXCEPT ![SgCallback.tag] = Append(@, LogEntry)]
    /\ IF SgTop.value = SgCallback.when /\ Len(sg_calls) < MaxCalls
       THEN /\ sg_values' = [sg_values EXCEPT ![SgTop.cell] = SgCallback.to]
            /\ sg_calls' = Append(sg_calls,
                                  [CallRecord("set", 1, SgCallback.to, TRUE)
                                      EXCEPT !.nsubs = Len(sg_subs[SgTop.list])])
            /\ sg_stack' = Append(Advance,
                                  [call |-> Len(sg_calls) + 1, value |-> SgCallback.to,
                                   list |-> SgTop.list, cell |-> SgTop.cell, i |-> 1])
       ELSE /\ sg_stack' = Advance
            /\ UNCHANGED <<sg_values, sg_calls>>
    /\ UNCHANGED <<sg_subs, sg_handles, sg_derived, sg_ret, coreVars, dimVars>>

\* the loop is over: notify_subscribers and the call that made it return
Return ==
    /\ ~SgIdle
    /\ SgTop.i > Len(sg_subs[SgTop.list])
    /\ sg_stack' = SubSeq(sg_stack, 1, Len(sg_stack) - 1)
    /\ sg_ret' = [op |-> sg_calls[SgTop.call].op,
                  ret |-> IF sg_calls[SgTop.call].op = "set_if_changed" THEN 1 ELSE 0]
    /\ UNCHANGED <<sg_values, sg_subs, sg_handles, sg_derived, sg_calls, sg_logs,
                   coreVars, dimVars>>

\* a derive whose result points at the value of the signal it derives from
Signal_derive_alias(handle, values, subs, callback) ==
    [handle |-> [value |-> handle.value, subscribers |-> Len(subs) + 1],
     values |-> Append(values, ApplyClosure(callback.f, Signal_get(handle, values))),
     subs   |-> Append(Signal_subscribe(handle, subs, callback).subs, <<>>)]

\* Signal::derive: Signal::new(f(&self.get())) makes two cells of its own,
\* and the closure is pushed on the subscribers of self
Signal_derive(handle, values, subs, callback) ==
    [handle |-> [value |-> Len(values) + 1, subscribers |-> Len(subs) + 1],
     values |-> Append(values, ApplyClosure(callback.f, Signal_get(handle, values))),
     subs   |-> Append(Signal_subscribe(handle, subs, callback).subs, <<>>)]

\* signal.derive(f)
Derive(h, f) ==
    /\ SgIdle
    /\ sg_derived = 0
    /\ h \in SourceHandles
    /\ LET d == Signal_derive(sg_handles[h], sg_values, sg_subs,
                              Subscription(h, Callback("derive", 0, f, 0, 0))) IN
       /\ sg_values' = d.values
       /\ sg_subs' = d.subs
       /\ sg_handles' = Append(sg_handles, d.handle)
    /\ sg_derived' = Len(sg_handles) + 1
    /\ sg_ret' = [op |-> "derive", ret |-> 0]
    /\ UNCHANGED <<sg_stack, sg_calls, sg_logs, coreVars, dimVars>>

SigNext ==
    \/ \E h \in DOMAIN sg_handles : SignalClone(h) \/ Subscribe(h)
    \/ \E h \in DOMAIN sg_handles, x \in 0..(Modulus - 1) :
          SetCall(h, x) \/ SetIfChangedCall(h, x)
    \/ \E h \in DOMAIN sg_handles, f \in Closures : UpdateCall(h, f) \/ Derive(h, f)
    \/ Notify
    \/ Return

ReentrantNext ==
    \/ \E h \in DOMAIN sg_handles : Subscribe(h)
    \/ \E h \in DOMAIN sg_handles, a, b \in 0..(Modulus - 1) : SubscribeSetter(h, a, b)
    \/ \E h \in DOMAIN sg_handles, x \in 0..(Modulus - 1) : SetCall(h, x)
    \/ Notify
    \/ NotifySetter
    \/ Return

(***************************************************************************)
(* Inputs                                                                  *)
(***************************************************************************)
MaxNodes   == 4
MaxProps   == 3
MaxEntries == 2
MaxNameLen == 3
MaxExprNodes == 5
MaxSetFields == 2
MaxDimValue == 100
MaxBodyLen == 3

Lit(c)  == Tk("lit", <<c>>)
Var(c)  == Id(<<c>>)
Loop    == Tk("kw", <<"l","o","o","p">>)
Life    == Tk("life", <<"l">>)

BlockTok(t, body) == <<Id(t), Brace(body)>>

\* a property every block of the type carries in the tree inputs
PropsFor(t) ==
    IF t = N_Text THEN <<Id(n_content), Colon, Lit("t"), Comma>>
    ELSE IF t = N_Button THEN <<Id(n_text), Colon, Lit("b"), Comma>>
    ELSE IF t = N_Column THEN <<Id(n_gap), Colon, Lit("g"), Comma>>
    ELSE <<>>

TreeTypes == {N_Column, N_App, N_Text, N_TabGroup}
RootTypes == TreeTypes \cup {N_Row, N_Container, N_Button}

RECURSIVE Forest(_)
RECURSIVE TreesOf(_)
\* the entries that hold exactly k nodes: a block, or an opaque expression child
TreesOf(k) ==
    {BlockTok(t, PropsFor(t) \o body) : t \in TreeTypes, body \in Forest(k - 1)}
    \cup (IF k = 1 THEN {<<Var("x")>>} ELSE {})

\* the bodies that hold exactly n nodes
Forest(n) ==
    IF n = 0 THEN {<<>>}
    ELSE UNION {{e \o <<Comma>> \o f : e \in TreesOf(k), f \in Forest(n - k)} : k \in 1..n}

TreeInputs ==
    UNION {{BlockTok(t, PropsFor(t) \o body) : t \in RootTypes, body \in Forest(k - 1)}
           : k \in 1..MaxNodes}

PropForms ==
    {<<Id(n_content), Colon, Lit("a")>>, <<Id(n_text), Colon, Lit("b")>>,
     <<Id(n_title), Colon, Lit("c")>>, <<Id(n_width), Colon, Lit("w")>>,
     <<Id(n_width), Colon, Lit("v")>>, <<Id(n_gap), Colon, Var("g")>>}

RECURSIVE PropLists(_)
\* the comma-terminated property lists of exactly n properties
PropLists(n) ==
    IF n = 0 THEN {<<>>}
    ELSE {p \o <<Comma>> \o rest : p \in PropForms, rest \in PropLists(n - 1)}

PropBodies == UNION {PropLists(n) : n \in 0..MaxProps}

PropInputs ==
    {BlockTok(t, body) : t \in {N_Column, N_Text, N_Button}, body \in PropBodies}
    \cup {BlockTok(N_Column, <<Id(n_gap), Colon, Lit("g"), Comma>>
                             \o BlockTok(t, body) \o <<Comma, Var("x")>>)
          : t \in {N_Text, N_Row}, body \in PropBodies}

EntryForms ==
    {<<Id(n_width), Colon, Lit("w")>>,                   \* width: "w"
     <<Id(n_gap), Colon, Var("a"), PathSep, Var("b")>>,  \* gap: a::b
     <<Id(n_color), Colon, Var("S"), Brace(<<>>)>>,      \* color: S {}
     <<Lit("e")>>,                                       \* "e"
     <<Var("x")>>,                                       \* x
     <<Var("a"), PathSep, Var("b")>>,                    \* a::b
     <<Loop, Brace(<<>>)>>,                              \* loop {}
     <<Life, Colon, Loop, Brace(<<>>)>>,                 \* 'l: loop {}
     <<Lit("k"), Colon, Lit("v")>>,                      \* "k": "v"
     <<Loop>>,                                           \* loop
     <<Brace(<<>>)>>,                                    \* {}
     BlockTok(N_Text, <<Id(n_content), Colon, Lit("t")>>),
     BlockTok(N_Row, BlockTok(N_Row, <<Var("x")>>))}

RECURSIVE EntryLists(_)
\* bodies of exactly n entries, each followed by a comma or not
EntryLists(n) ==
    IF n = 0 THEN {<<>>}
    ELSE {e \o sep \o rest : e \in EntryForms, sep \in {<<>>, <<Comma>>},
                             rest \in EntryLists(n - 1)}

ParseInputs ==
    LET bodies == UNION {EntryLists(n) : n \in 0..MaxEntries} IN
    {BlockTok(N_Column, body) : body \in bodies}
    \cup {BlockTok(N_Column, <<>>) \o <<Var("x")>>, <<Var("x")>>, <<Lit("e"), Brace(<<>>)>>,
          <<Id(N_Column)>>}

NameChars == {"T", "G", "a", "b", "_", "1"}

RECURSIVE NamesOfLen(_)
NamesOfLen(n) ==
    IF n = 0 THEN {<<>>}
    ELSE {<<c>> \o rest : c \in NameChars, rest \in NamesOfLen(n - 1)}

NameInputs ==
    UNION {NamesOfLen(n) : n \in 1..MaxNameLen}
    \cup {N_App, N_Column, N_Row, N_Container, N_Text, N_Button, N_TabGroup,
          n_tab_group, n_text}

ExprLeaves ==
    {ExprLit("1"), ExprPath(<<"count">>), ExprPath(<<"name">>),
     ExprPath(<<"state", "count">>)}

MethodNames == {"get", "len"}

RECURSIVE ExprsOfSize(_)
\* the expressions of exactly n nodes
ExprsOfSize(n) ==
    IF n = 1 THEN ExprLeaves
    ELSE {ExprMethodCall(r, m, <<>>) : r \in ExprsOfSize(n - 1), m \in MethodNames}
         \cup {ExprParen(e) : e \in ExprsOfSize(n - 1)}
         \cup {ExprMacro("format", <<e>>) : e \in ExprsOfSize(n - 1)}
         \cup UNION {{ExprMethodCall(r, m, <<a>>) :
                        r \in ExprsOfSize(k), a \in ExprsOfSize(n - 1 - k),
                        m \in MethodNames} : k \in 1..(n - 2)}
         \cup UNION {{ExprBinary(l, r) :
                        l \in ExprsOfSize(k), r \in ExprsOfSize(n - 1 - k)}
                     : k \in 1..(n - 2)}

ExprInputs == UNION {ExprsOfSize(n) : n \in 1..MaxExprNodes}

\* values an optional field of each type is set to
ValuesOf(f) ==
    CASE f \in AlignmentFields ->
           {[kind |-> "Constant", v |-> [variant |-> "SpaceBetween"]],
            [kind |-> "Variable", var |-> "x"]}
      [] f \in F32Fields -> {<<Lit("2")>>, F32_INFINITY}
      [] f \in U8Fields  -> {<<Lit("1")>>}
      [] OTHER           -> {<<Lit("s")>>}

\* IRComponent::new(component_type, id)
IRComponent_new(variant, id) ==
    [DefaultComponent EXCEPT !.id = id, !.component_type = CT(variant)]

RECURSIVE ComponentsSet(_, _)
\* base with at most n more optional fields set
ComponentsSet(base, n) ==
    IF n = 0 THEN {base}
    ELSE LET less == ComponentsSet(base, n - 1) IN
         less \cup UNION {{[c EXCEPT ![f] = Some(x)] : x \in ValuesOf(f)} :
                            c \in less, f \in OptionalFields}

ChildLists ==
    {<<>>,
     <<[IRComponent_new("Text", 2) EXCEPT !.content = Some(<<Lit("s")>>)]>>,
     <<[IRComponent_new("Button", 2) EXCEPT
           !.text = Some(<<Lit("b")>>),
           !.children = <<IRComponent_new("Text", 3)>>],
       [IRComponent_new("Text", 4) EXCEPT !.font_size = Some(<<Lit("2")>>)]>>}

DefinitionLists ==
    {<<>>, <<[name |-> "Card",
              template |-> [IRComponent_new("Row", 0) EXCEPT !.gap = Some(<<Lit("2")>>)]]>>}

LogicValues ==
    {[functions |-> <<>>, event_bindings |-> <<>>],
     [functions |-> [onClick |-> "code"],
      event_bindings |-> <<[component_id |-> 1, event_type |-> "click",
                            handler |-> "onClick"]>>]}

ManifestValues ==
    {[variables |-> <<>>],
     [variables |-> <<[id |-> "count", var_type |-> "int", initial_value |-> JNum(0)]>>]}

DocInputs ==
    {[format_version |-> "3.0", component_definitions |-> defs,
      root |-> [c EXCEPT !.children = kids], logic |-> l, reactive_manifest |-> m] :
        c \in ComponentsSet(IRComponent_new("Column", 1), MaxSetFields),
        kids \in ChildLists, defs \in DefinitionLists,
        l \in LogicValues, m \in ManifestValues}

\* a document with every section, a child and an alignment, as to_json writes it
FullJson ==
    doc_to_json(
        [format_version |-> "3.0",
         component_definitions |->
            <<[name |-> "Card", template |-> IRComponent_new("Row", 0)]>>,
         root |-> [IRComponent_new("Column", 1) EXCEPT
                      !.justify_content =
                          Some([kind |-> "Constant", v |-> [variant |-> "Center"]]),
                      !.children = <<IRComponent_new("Text", 2)>>],
         logic |-> [functions |-> [onClick |-> "code"],
                    event_bindings |-> <<[component_id |-> 1, event_type |-> "click",
                                          handler |-> "onClick"]>>],
         reactive_manifest |->
            [variables |-> <<[id |-> "count", var_type |-> "int",
                              initial_value |-> JNum(0)]>>]])

Without(j, k) == JObj([x \in DOMAIN j.v \ {k} |-> j.v[x]])
With(j, k, val) == JObj([x \in DOMAIN j.v \cup {k} |-> IF x = k THEN val ELSE j.v[x]])

RECURSIVE WithoutAll(_, _)
WithoutAll(j, ks) ==
    IF ks = {} THEN j
    ELSE LET k == CHOOSE x \in ks : TRUE IN WithoutAll(Without(j, k), ks \ {k})

\* changes to the object of one component, in a list: JSON values of
\* different types are never compared
Edit(op, key, val) == [op |-> op, key |-> key, val |-> val]

AlignmentEdits(key) ==
    <<Edit("set", key, JStr("middle")), Edit("set", key, JStr("Start")),
      Edit("set", key, JStr("space-around")), Edit("set", key, JNum(1)),
      Edit("set", key, JNull), Edit("set", key, JObj([name |-> JStr("x")])),
      Edit("set", key, JObj([var |-> JNum(1)])),
      Edit("set", key, JObj([var |-> JStr("x")])),
      Edit("set", key, JObj([start |-> JNull])),
      Edit("set", key, JObj([start |-> JNull, var |-> JNum(1)])),
      Edit("set", key, JArr(<<JStr("x")>>)), Edit("set", key, JArr(<<>>))>>

Edits ==
    <<Edit("none", "", JNull), Edit("del", "type", JNull), Edit("del", "id", JNull),
      Edit("set", "bogus", JStr("x")),
      Edit("set", "type", JStr("Bogus")), Edit("set", "type", JStr("text")),
      Edit("set", "type", JStr("TabPanel")), Edit("set", "type", JNum(1)),
      Edit("set", "type", JNull), Edit("set", "type", JObj([Row |-> JNull])),
      Edit("set", "type", JObj([var |-> JStr("x")])),
      Edit("set", "id", JStr("1")), Edit("set", "id", JNum(0 - 1)),
      Edit("set", "id", JNum(7)),
      Edit("set", "width", JNum(1)), Edit("set", "width", JStr(<<Lit("s")>>)),
      Edit("set", "width", JNull)>>
    \o AlignmentEdits("justifyContent") \o AlignmentEdits("alignItems")

Apply(j, e) ==
    CASE e.op = "del" -> Without(j, e.key)
      [] e.op = "set" -> With(j, e.key, e.val)
      [] OTHER        -> j

\* the edit made to the root, to its child or to the template of the definition
EditAt(j, place, e) ==
    CASE place = "root" -> With(j, "root", Apply(j.v["root"], e))
      [] place = "child" ->
           With(j, "root",
                With(j.v["root"], "children",
                     JArr(<<Apply(j.v["root"].v["children"].v[1], e)>>)))
      [] OTHER ->
           With(j, "component_definitions",
                JArr(<<With(j.v["component_definitions"].v[1], "template",
                            Apply(j.v["component_definitions"].v[1].v["template"], e))>>))

\* the sections emptied of one or both of their lists
SectionEdits(j) ==
    <<j,
      With(j, "logic", JObj(<<>>)),
      With(j, "logic", Without(j.v["logic"], "functions")),
      With(j, "logic", Without(j.v["logic"], "event_bindings")),
      With(j, "reactive_manifest", JObj(<<>>)),
      With(j, "logic", JNull),
      With(j, "reactive_manifest", JNum(1))>>

Places == <<"root", "child", "template">>

\* the subsets of three keys, numbered 0..7
KeySubset(n, k1, k2, k3) ==
    (IF n % 2 = 1 THEN {k1} ELSE {})
    \cup (IF (n \div 2) % 2 = 1 THEN {k2} ELSE {})
    \cup (IF (n \div 4) % 2 = 1 THEN {k3} ELSE {})

NumEdited == Len(Places) * Len(Edits) * 8
NumSectioned == Len(SectionEdits(FullJson)) * 8 * 3
NumJsonInputs == NumEdited + NumSectioned + 2

\* the i-th JSON text handed to from_json
JsonInput(i) ==
    IF i <= NumEdited
    THEN LET n == i - 1
             place == Places[(n % Len(Places)) + 1]
             e == Edits[((n \div Len(Places)) % Len(Edits)) + 1]
             ks == KeySubset(n \div (Len(Places) * Len(Edits)),
                             "logic", "reactive_manifest", "component_definitions")
         IN WithoutAll(EditAt(FullJson, place, e), ks)
    ELSE IF i <= NumEdited + NumSectioned
    THEN LET n == i - NumEdited - 1
             x == SectionEdits(FullJson)[(n % Len(SectionEdits(FullJson))) + 1]
             m == n \div Len(SectionEdits(FullJson))
             ks == KeySubset(m % 8, "logic", "reactive_manifest", "component_definitions")
             k == <<{}, {"root"}, {"format_version"}>>[(m \div 8) + 1]
         IN WithoutAll(x, ks \cup k)
    ELSE IF i = NumEdited + NumSectioned + 1 THEN JArr(<<>>) ELSE JNull

\* the whole-number values, both signs, zero included
WholeValues == {Whole(neg, n) : neg \in BOOLEAN, n \in 0..MaxDimValue}

DimensionInputs ==
    {Dim(variant, v) : variant \in {"Px", "Percent", "Flex"}, v \in WholeValues}
    \cup {Dimension_Auto}

BodyChars == {"0", "1", "7", ".", "-", "+", "n", "a", "i", "f"}

RECURSIVE BodiesOfLen(_)
BodiesOfLen(n) ==
    IF n = 0 THEN {<<>>}
    ELSE {<<c>> \o rest : c \in BodyChars, rest \in BodiesOfLen(n - 1)}

Suffixes == {<<>>, <<"p", "x">>, <<"%">>, <<"f", "r">>, <<"x", "y", "z">>, <<"x">>}

\* a short body with what may be a unit behind it, and some longer strings
StringInputs ==
    UNION {{b \o u : b \in BodiesOfLen(n), u \in Suffixes} : n \in 0..MaxBodyLen}
    \cup {<<"a", "u", "t", "o">>, <<"A", "u", "t", "o">>,
          <<"a", "u", "t", "o", "p", "x">>,
          <<"1", "0", "0", ".", "0", "p", "x">>, <<"5", "0", ".", "0", "%">>,
          <<"1", ".", "0", "f", "r">>, <<"1", "0", "0", " ", "p", "x">>,
          <<"N", "a", "N", "p", "x">>, <<"I", "N", "F", "%">>,
          <<"i", "n", "f", "i", "n", "i", "t", "y", "f", "r">>,
          <<"-", "i", "n", "f", "p", "x">>, <<"5", "f", "r", "p", "x">>}

(***************************************************************************)
(* Specifications                                                          *)
(***************************************************************************)
NamesIdle ==
    /\ nm_in = <<>> /\ nm_out = <<>> /\ nm_again = <<>> /\ nm_builder = <<>>
    /\ nm_pc = "idle"

RxIdle ==
    /\ rx_expr = ExprLit("1") /\ rx_info = NoInfo /\ rx_reactive = FALSE
    /\ rx_binding = None /\ rx_code = NoCode /\ rx_pc = "idle"

DimIdle ==
    /\ dm_dim = NoDimension /\ dm_str = <<>> /\ dm_out = NoDimension
    /\ dm_pc = "idle"

\* Signal::new(initial) and nothing done with it
SignalNew(initial) ==
    /\ sg_values = <<initial>>
    /\ sg_subs = <<<<>>>>
    /\ sg_handles = <<[value |-> 1, subscribers |-> 1]>>
    /\ sg_derived = 0
    /\ sg_stack = <<>>
    /\ sg_calls = <<>>
    /\ sg_logs = <<>>
    /\ sg_ret = [op |-> "new", ret |-> 0]

SigIdle == SignalNew(0)

LibIdle == DimIdle /\ SigIdle

PipelineStart(inputs) ==
    /\ input \in inputs
    /\ pc = "parse"
    /\ pstack = <<>>
    /\ branch = "none"
    /\ look = <<NoTok, NoTok>>
    /\ parsed = NoResult
    /\ code = NoExpansion
    /\ ip = 1
    /\ id_counter = 0
    /\ rstack = <<>>
    /\ value = DefaultComponent
    /\ doc = NoDoc
    /\ json = <<>>
    /\ doc2 = NoDoc
    /\ NamesIdle
    /\ RxIdle
    /\ LibIdle

\* whole trees of blocks through the pipeline
Init == PipelineStart(TreeInputs)
Next == PipelineNext
Spec == Init /\ [][Next]_vars

\* blocks with every short property list
InitProps == PipelineStart(PropInputs)
SpecProps == InitProps /\ [][Next]_vars

\* bodies of well-formed and malformed entries
InitParse == PipelineStart(ParseInputs)
SpecParse == InitParse /\ [][Next]_vars

\* the macro is not running
FrontIdle ==
    /\ input = <<>>
    /\ pstack = <<>>
    /\ branch = "none"
    /\ look = <<NoTok, NoTok>>
    /\ parsed = NoResult
    /\ code = NoExpansion
    /\ ip = 1
    /\ id_counter = 0
    /\ rstack = <<>>
    /\ value = DefaultComponent

\* no macro invocation under way and no document at hand
PipelineIdle ==
    /\ FrontIdle
    /\ pc = "idle"
    /\ doc = NoDoc
    /\ json = <<>>
    /\ doc2 = NoDoc

InitNames ==
    /\ nm_in \in NameInputs
    /\ nm_out = <<>> /\ nm_again = <<>> /\ nm_builder = <<>>
    /\ nm_pc = "start"
    /\ PipelineIdle
    /\ RxIdle
    /\ LibIdle

\* the parser is a sequential function: once called it runs until it returns
SpecParseLive == InitParse /\ [][Next]_vars /\ WF_vars(ParseNext)

\* the reactive analysis of every small expression
InitReactive ==
    /\ rx_expr \in ExprInputs
    /\ rx_info = NoInfo /\ rx_reactive = FALSE
    /\ rx_binding = None /\ rx_code = NoCode /\ rx_pc = "start"
    /\ PipelineIdle
    /\ NamesIdle
    /\ LibIdle

SpecReactive == InitReactive /\ [][RxNext]_vars

\* documents written and read back, and JSON texts read
InitSerde ==
    /\ \/ pc = "serialize" /\ doc \in DocInputs /\ json = <<>>
       \/ pc = "deserialize" /\ doc = NoDoc
          /\ \E i \in 1..NumJsonInputs : json = JsonInput(i)
    /\ doc2 = NoDoc
    /\ FrontIdle
    /\ NamesIdle
    /\ RxIdle
    /\ LibIdle

SerdeNext == Serialize \/ Deserialize

SpecSerde == InitSerde /\ [][SerdeNext]_vars

SpecNames == InitNames /\ [][NameNext]_vars

\* dimensions formatted and read back, and strings read
InitDim ==
    /\ \/ dm_pc = "format" /\ dm_dim \in DimensionInputs /\ dm_str = <<>>
       \/ dm_pc = "parse" /\ dm_dim = NoDimension /\ dm_str \in StringInputs
    /\ dm_out = NoDimension
    /\ SigIdle
    /\ PipelineIdle
    /\ NamesIdle
    /\ RxIdle

SpecDim == InitDim /\ [][DimNext]_vars

\* a signal, its clones, its subscribers and the calls made through them
InitSignal ==
    /\ \E x \in 0..(Modulus - 1) : SignalNew(x)
    /\ DimIdle
    /\ PipelineIdle
    /\ NamesIdle
    /\ RxIdle

SpecSignal == InitSignal /\ [][SigNext]_vars

\* a signal with subscribers that set it while they are notified
SpecReentrant == InitSignal /\ [][ReentrantNext]_vars


(***************************************************************************)
(* Properties                                                              *)
(***************************************************************************)
RanToEnd == pc \in {"serialize", "deserialize", "done", "json_error"}

RECURSIVE BlockCount(_)
\* the blocks of an AST
BlockCount(b) ==
    1 + LET n[i \in 0..Len(b.children)] ==
                IF i = 0 THEN 0
                ELSE n[i - 1] + (IF b.children[i].kind = "Component"
                                 THEN BlockCount(b.children[i].block) ELSE 0)
        IN n[Len(b.children)]

RECURSIVE NodeCount(_)
\* the IRComponent nodes of a tree
NodeCount(c) ==
    1 + LET n[i \in 0..Len(c.children)] ==
                IF i = 0 THEN 0 ELSE n[i - 1] + NodeCount(c.children[i])
        IN n[Len(c.children)]

RECURSIVE BlockIds(_, _)
\* the ids of the nodes built for the blocks of b, in a pre-order walk of b
BlockIds(b, node) ==
    <<node.id>> \o
    Flatten([i \in 1..Len(b.children) |->
                IF b.children[i].kind = "Component" /\ i <= Len(node.children)
                THEN BlockIds(b.children[i].block, node.children[i])
                ELSE <<>>])

RECURSIVE HasExprChild(_)
HasExprChild(b) ==
    \E i \in DOMAIN b.children :
        \/ b.children[i].kind = "Expr"
        \/ b.children[i].kind = "Component" /\ HasExprChild(b.children[i].block)

RECURSIVE AstDepth(_)
AstDepth(b) ==
    1 + LET d[i \in 0..Len(b.children)] ==
                IF i = 0 THEN 0
                ELSE LET here == IF b.children[i].kind = "Component"
                                 THEN AstDepth(b.children[i].block) ELSE 0
                     IN IF here > d[i - 1] THEN here ELSE d[i - 1]
        IN d[Len(b.children)]

\* C1: when the expansion has run, the nodes built for the blocks carry the ids
\* 1..N in pre-order (N the number of blocks) and the counter ends at N; while
\* it runs, the counter starts at 0 and every block being built has taken an id
\* between 1 and the counter, a nested block a larger one than its parent.
C1_PreorderIds ==
    /\ (pc = "run" /\ ip = 2) => id_counter = 0
    /\ pc = "run" =>
          \A i \in DOMAIN rstack :
              /\ rstack[i].component_id \in 1..id_counter
              /\ i > 1 => rstack[i - 1].component_id < rstack[i].component_id
    /\ RanToEnd =>
          LET N == BlockCount(parsed.block) IN
          /\ BlockIds(parsed.block, doc.root) = [i \in 1..N |-> i]
          /\ id_counter = N

\* a tree of four blocks in which pre-order and level order differ
C1_Witness ==
    /\ RanToEnd
    /\ BlockCount(parsed.block) = 4
    /\ Len(parsed.block.children) = 2
    /\ parsed.block.children[1].kind = "Component"
    /\ parsed.block.children[2].kind = "Component"
    /\ Len(parsed.block.children[1].block.children) = 1
    /\ doc.root.children[2].id = 4

TableNames == {N_App, N_Column, N_Row, N_Container, N_Text, N_Button}

\* the node type a block type name stands for
ExpectedType(name) ==
    CASE name = N_Column    -> "Column"
      [] name = N_Row       -> "Row"
      [] name = N_Container -> "Container"
      [] name = N_Text      -> "Text"
      [] name = N_Button    -> "Button"
      [] name = N_App       -> "Container"
      [] OTHER              -> "?"

RECURSIVE SameShape(_, _)
\* node is the tree of b: one child node per child block, in order, typed by name
SameShape(b, node) ==
    /\ node.component_type.variant = ExpectedType(b.component_type)
    /\ Len(node.children) = Len(b.children)
    /\ \A i \in DOMAIN b.children :
          /\ b.children[i].kind = "Component"
          /\ SameShape(b.children[i].block, node.children[i])

RECURSIVE CtorsFollowTable(_, _)
\* every constructor call of c, at every depth, is the one the table gives
CtorsFollowTable(b, c) ==
    /\ b.component_type = N_Column    => c.builder_fn = n_column
    /\ b.component_type = N_Row       => c.builder_fn = n_row
    /\ b.component_type = N_Container => c.builder_fn = n_container
    /\ b.component_type = N_Text      => c.builder_fn = n_text
    /\ b.component_type = N_Button    => c.builder_fn = n_button
    /\ b.component_type = N_App       => c.builder_fn = n_container
    /\ Len(c.child_calls) = Len(b.children)
    /\ \A i \in DOMAIN b.children :
          b.children[i].kind = "Component" =>
              CtorsFollowTable(b.children[i].block, c.child_calls[i].code)

Generated == pc \notin {"parse", "parse_error", "generate", "idle"}

\* C3: the table names map to their canonical constructors, App to container
\* like Container, whatever the block's depth, properties and children.
C3_TableMapping ==
    Generated => CtorsFollowTable(parsed.block, code.root)

\* an App nested under an App that has properties-bearing siblings
C3_Witness ==
    /\ Generated
    /\ parsed.block.component_type = N_App
    /\ Len(parsed.block.children) = 2
    /\ parsed.block.children[1].kind = "Component"
    /\ parsed.block.children[1].block.component_type = N_App
    /\ parsed.block.children[1].block.children # <<>>
    /\ parsed.block.children[2].kind = "Component"
    /\ parsed.block.children[2].block.component_type = N_Text
    /\ code.root.child_calls[1].code.builder_fn = n_container

RECURSIVE SnakePieces(_, _)
\* character by character: an uppercase letter becomes its lowercase form,
\* after an underscore unless it is the first character; others are copied
SnakePieces(s, i) ==
    IF i > Len(s) THEN <<>>
    ELSE (IF is_uppercase(s[i])
          THEN (IF i = 1 THEN <<>> ELSE <<"_">>) \o <<to_lowercase(s[i])>>
          ELSE <<s[i]>>)
         \o SnakePieces(s, i + 1)

RECURSIVE BlockPairs(_, _)
\* each block of an AST paired with the code generated for it
BlockPairs(b, c) ==
    {<<b, c>>}
    \cup UNION {BlockPairs(b.children[i].block, c.child_calls[i].code) :
                   i \in {j \in DOMAIN b.children :
                             /\ b.children[j].kind = "Component"
                             /\ j <= Len(c.child_calls)
                             /\ c.child_calls[j].kind = "code"}}

InitialIndexes(props) == {i \in DOMAIN props : props[i].name \in {n_content, n_text, n_title}}

\* the constructor takes the first content/text/title value, or nothing
InitialContentRule(b, c) ==
    LET idx == InitialIndexes(b.properties) IN
    /\ idx = {} => c.builder_args = <<>>
    /\ idx # {} =>
          c.builder_args = <<b.properties[CHOOSE i \in idx : \A j \in idx : i <= j].value>>
    /\ \A k \in DOMAIN c.property_calls :
          c.property_calls[k].method \notin {n_content, n_text, n_title}

\* C5: for every block type, the first content/text/title property in source
\* order is the constructor's single argument, none of the three names gets a
\* setter call, and without such a property the constructor has no argument.
C5_InitialContent ==
    Generated => (\A p \in BlockPairs(parsed.block, code.root) : InitialContentRule(p[1], p[2]))

\* two initial-content properties with different values, the second one named content
C5_Witness ==
    /\ Generated
    /\ Len(parsed.block.properties) >= 2
    /\ parsed.block.properties[1].name = n_title
    /\ parsed.block.properties[2].name = n_content
    /\ parsed.block.properties[1].value # parsed.block.properties[2].value
    /\ code.root.builder_args = <<parsed.block.properties[1].value>>

RECURSIVE SettersOf(_)
\* one setter per property that is not an initial-content name, in source order
SettersOf(props) ==
    IF props = <<>> THEN <<>>
    ELSE (IF Head(props).name \in {n_content, n_text, n_title} THEN <<>>
          ELSE <<[method |-> Head(props).name, arg |-> Head(props).value]>>)
         \o SettersOf(Drop(props, 1))

SetterRule(b, c) == c.property_calls = SettersOf(b.properties)

\* C6: the setter calls of a block are its properties without the
\* initial-content names, in source order, duplicates kept, each call named
\* after the property and given the property's expression unchanged.
C6_PropertySetters ==
    Generated => (\A p \in BlockPairs(parsed.block, code.root) : SetterRule(p[1], p[2]))

\* width twice with different values around an initial-content property
C6_Witness ==
    /\ Generated
    /\ Len(parsed.block.properties) = 3
    /\ parsed.block.properties[1].name = n_width
    /\ parsed.block.properties[2].name = n_content
    /\ parsed.block.properties[3].name = n_width
    /\ parsed.block.properties[1].value # parsed.block.properties[3].value
    /\ Len(code.root.property_calls) = 2

\* one child call per child, in order: nested code for a block, the
\* expression itself for an opaque expression
ChildRule(b, c) ==
    /\ Len(c.child_calls) = Len(b.children)
    /\ \A i \in DOMAIN b.children :
          IF b.children[i].kind = "Component"
          THEN c.child_calls[i].kind = "code"
          ELSE c.child_calls[i] = [kind |-> "expr", code |-> NoCode,
                                   expr |-> b.children[i].expr]

RECURSIVE ChildCount(_)
\* the children, of both kinds, of all blocks of an AST
ChildCount(b) ==
    LET n[i \in 0..Len(b.children)] ==
            IF i = 0 THEN 0
            ELSE n[i - 1] + 1 + (IF b.children[i].kind = "Component"
                                 THEN ChildCount(b.children[i].block) ELSE 0)
    IN n[Len(b.children)]

OpCount(prog, op) == Cardinality({i \in DOMAIN prog : prog[i].op = op})

\* C7: each child gives exactly one child-append call, in source order; a
\* nested block is generated by the same algorithm on the shared counter, an
\* opaque expression is attached verbatim and does not advance the counter.
C7_ChildCalls ==
    /\ Generated =>
          /\ (\A p \in BlockPairs(parsed.block, code.root) : ChildRule(p[1], p[2]))
          /\ OpCount(Program(code), "child") = ChildCount(parsed.block)
          /\ OpCount(Program(code), "inc") = BlockCount(parsed.block)
          /\ OpCount(Program(code), "eval")
                = ChildCount(parsed.block) - (BlockCount(parsed.block) - 1)
    /\ (pc = "run" /\ ip > 1 /\ Program(code)[ip - 1].op \in {"eval", "child"}) =>
          id_counter = OpCount(SubSeq(Program(code), 1, ip - 2), "inc")
    /\ RanToEnd => id_counter = BlockCount(parsed.block)

\* an expression child before a nested block that has an expression child itself
C7_Witness ==
    /\ RanToEnd
    /\ Len(parsed.block.children) = 2
    /\ parsed.block.children[1].kind = "Expr"
    /\ parsed.block.children[2].kind = "Component"
    /\ HasExprChild(parsed.block.children[2].block)
    /\ id_counter = 2
    /\ Len(doc.root.children) = 2

RECURSIVE HasUnresolvedName(_)
\* some block's name is not in the table and its normalized form names no builder
HasUnresolvedName(b) ==
    \/ /\ b.component_type \notin TableNames
       /\ SnakePieces(b.component_type, 1)
             \notin {n_container, n_row, n_column, n_text, n_button}
    \/ \E i \in DOMAIN b.children :
          b.children[i].kind = "Component" /\ HasUnresolvedName(b.children[i].block)

UnresolvedCallRule(b, c) ==
    b.component_type \notin TableNames =>
        c.builder_fn = SnakePieces(b.component_type, 1)

C9_Original ==
    branch # "none" =>
        (branch = "property" <=> (look[1].k = "ident" /\ look[2].k = "colon"))

\* what Child::parse does with an entry it is given
ChildEntryRule ==
    (pc = "parse" /\ pstack # <<>> /\ Top.content # <<>> /\ branch' # "property") =>
        LET c == Top.content IN
        IF c[1].k = "ident" /\ KindAt(c, 2) = "brace"
        THEN /\ branch' = "component"
             /\ Len(pstack') = Len(pstack) + 1
             /\ pstack'[Len(pstack')].component_type = c[1].s
             /\ pstack'[Len(pstack')].content = c[2].body
             /\ pstack'[Len(pstack')].properties = <<>>
             /\ pstack'[Len(pstack')].children = <<>>
        ELSE /\ branch' = "expr"
             /\ \/ pc' = "parse_error"
                \/ /\ Len(pstack') = Len(pstack)
                   /\ \E n \in 1..Len(c) :
                         pstack'[Len(pstack)].children
                            = Append(Top.children, ChildExpr(SubSeq(c, 1, n)))

\* a nested block that ends is its parent's next child, as a ComponentBlock
NestedEndRule ==
    (pc = "parse" /\ Len(pstack) > 1 /\ Top.content = <<>>) =>
        /\ Len(pstack') = Len(pstack) - 1
        /\ pstack'[Len(pstack')].children
              = Append(pstack[Len(pstack) - 1].children,
                       ChildComponent([component_type |-> Top.component_type,
                                       properties |-> Top.properties,
                                       children |-> Top.children]))

\* C10: a child entry is parsed as a nested ComponentBlock, at any depth,
\* exactly when it starts with an identifier directly followed by an opening
\* brace; any other child entry is kept as one opaque expression made of its
\* own tokens.
C10_ChildDispatch == [][ChildEntryRule /\ NestedEndRule]_vars

\* a lone variable kept opaque inside a block nested in a nested block
C10_Witness ==
    /\ pc = "parse"
    /\ Len(pstack) = 3
    /\ branch = "expr"
    /\ look[1].k = "ident" /\ look[2].k = "none"
    /\ pstack[2].component_type = N_Row
    /\ Top.component_type = N_Row
    /\ Top.children = <<ChildExpr(<<look[1]>>)>>

BodyFail == [ok |-> FALSE, properties |-> <<>>, children |-> <<>>]

RECURSIVE BodyResult(_, _, _)
\* the lists the body loop ends with on a given body, entry by entry
BodyResult(content, properties, children) ==
    IF content = <<>>
    THEN [ok |-> TRUE, properties |-> properties, children |-> children]
    ELSE IF Peek2Colon(content)
    THEN LET r == ParseProperty(content) IN
         IF r.ok THEN BodyResult(SkipComma(r.rest), properties \o r.prop, children)
         ELSE BodyFail
    ELSE IF IsBlockAhead(content)
    THEN LET inner == BodyResult(content[2].body, <<>>, <<>>) IN
         IF inner.ok
         THEN BodyResult(SkipComma(Drop(content, 2)), properties,
                         Append(children,
                                ChildComponent([component_type |-> content[1].s,
                                                properties |-> inner.properties,
                                                children |-> inner.children])))
         ELSE BodyFail
    ELSE LET r == ParseExpr(content) IN
         IF r.ok
         THEN BodyResult(SkipComma(Drop(content, r.n)), properties,
                         Append(children, ChildExpr(SubSeq(content, 1, r.n))))
         ELSE BodyFail

\* the outcome of the parse the actions made
ParsedResult ==
    [ok |-> parsed.ok, properties |-> parsed.block.properties,
     children |-> parsed.block.children]

IsPrefix(e, toks) == Len(e) <= Len(toks) /\ SubSeq(toks, 1, Len(e)) = e

RECURSIVE Readings(_, _)
\* the entry lists that a body spells, each entry followed by a comma or not;
\* with apart, only those where an entry that begins with a brace group
\* has a comma before it
Readings(body, apart) ==
    IF body = <<>> THEN {<<>>}
    ELSE UNION {
        LET rest == Drop(body, Len(e)) IN
        (IF KindAt(rest, 1) = "comma"
         THEN {<<e>> \o r : r \in Readings(Drop(rest, 1), apart)} ELSE {})
        \cup (IF apart /\ KindAt(rest, 1) = "brace" THEN {}
              ELSE IF rest = <<>> THEN {<<e>>}
              ELSE {<<e>> \o r : r \in Readings(rest, apart) \ {<<>>}})
        : e \in {f \in EntryForms : IsPrefix(f, body)}}

\* the entries written with a comma after each
CommaForm(es) == Flatten([i \in DOMAIN es |-> es[i] \o <<Comma>>])

\* the parse of a well-formed top block has just ended
ParseFinished ==
    /\ pc \in {"parse_error", "generate"}
    /\ Len(input) = 2 /\ input[1].k = "ident" /\ input[2].k = "brace"

RECURSIVE Size(_)
\* the tokens of a stream, those inside brace groups included
Size(toks) ==
    IF toks = <<>> THEN 0 ELSE 1 + Size(Head(toks).body) + Size(Drop(toks, 1))

RECURSIVE OuterSize(_)
\* the tokens that follow the open blocks of a stack, each in its parent
OuterSize(stack) ==
    IF stack = <<>> THEN 0 ELSE Size(Head(stack).outer) + OuterSize(Drop(stack, 1))

\* what is left to read with a stack of open blocks
UnreadOf(stack) ==
    IF stack = <<>> THEN Size(input)
    ELSE Size(stack[Len(stack)].content) + OuterSize(stack)

Unread == UnreadOf(pstack)

\* a bound on the parser steps still to come
ParseMeasure == IF pc # "parse" THEN 0 ELSE 2 * Unread + Len(pstack) + 1

\* a returned block is the whole top block, and a failure carries no block
ParseOutcome ==
    /\ pc = "parse" => parsed = NoResult
    /\ (pc # "parse" /\ parsed.ok) =>
          /\ Len(input) = 2 /\ input[1].k = "ident" /\ input[2].k = "brace"
          /\ LET r == BodyResult(input[2].body, <<>>, <<>>) IN
             /\ r.ok
             /\ parsed.block = [component_type |-> input[1].s,
                                properties |-> r.properties, children |-> r.children]
    /\ (pc # "parse" /\ ~parsed.ok) =>
          /\ pc = "parse_error"
          /\ parsed.block = NoBlock
          /\ parsed.err \notin {"", "none"}
          /\ code = NoExpansion /\ doc = NoDoc

\* an iteration of the body loop reads at least one token or fails
IterationConsumes ==
    (pc = "parse" /\ pstack # <<>> /\ Top.content # <<>>) =>
        \/ pc' = "parse_error"
        \/ (pc' = "parse" /\ pstack' # <<>>
            /\ UnreadOf(pstack') < Unread)

\* C12: parsing a finite token stream terminates, every iteration of the body
\* loop consuming a token or failing; the result is a ComponentBlock only when
\* the top block is closed and nothing follows it; leftover tokens and
\* malformed entries give an error value and no block, partial or not.
C12_ParseTerminates ==
    /\ []ParseOutcome
    /\ [][IterationConsumes /\ (pc = "parse" => ParseMeasure' < ParseMeasure)
          /\ (pc = "parse_error" => pc' = "parse_error")]_vars
    /\ <>(pc # "parse")

\* a closed top block followed by a token is refused
C12_Witness ==
    /\ pc = "parse_error"
    /\ Len(input) = 3 /\ input[1].k = "ident" /\ input[2].k = "brace"
    /\ parsed = Err("unexpected token")


RECURSIVE GetReceivers(_)
\* the bare variables that are the receiver of a get call, in the order the
\* calls are met walking the tree from the top, repetitions included
GetReceivers(expr) ==
    (IF /\ expr.kind = "MethodCall" /\ expr.name = <<"get">>
        /\ expr.sub[1].kind = "Path" /\ Len(expr.sub[1].name) = 1
     THEN <<expr.sub[1].name[1]>> ELSE <<>>)
    \o Flatten([i \in DOMAIN expr.sub |-> GetReceivers(expr.sub[i])])

RECURSIVE HasGet(_)
\* a method call named get is in the syntax tree
HasGet(expr) ==
    \/ expr.kind = "MethodCall" /\ expr.name = <<"get">>
    \/ \E i \in DOMAIN expr.sub : HasGet(expr.sub[i])

RECURSIVE WrittenGet(_)
\* a call of get is written in the expression, inside macro arguments or not
WrittenGet(expr) ==
    \/ expr.kind = "MethodCall" /\ expr.name = <<"get">>
    \/ \E i \in DOMAIN expr.sub : WrittenGet(expr.sub[i])
    \/ \E i \in DOMAIN expr.tokens : WrittenGet(expr.tokens[i])

FirstAt(seq, x) == CHOOSE i \in DOMAIN seq : seq[i] = x /\ \A j \in 1..(i - 1) : seq[j] # x

Analyzed == rx_pc \in {"analyzed", "checked", "bound", "emitted"}

CountGet == ExprMethodCall(ExprPath(<<"count">>), "get", <<>>)

SignalVarsRule ==
    Analyzed =>
        LET g == GetReceivers(rx_expr)
            r == rx_info.signal_vars
        IN /\ {r[i] : i \in DOMAIN r} = {g[i] : i \in DOMAIN g}
           /\ \A i, j \in DOMAIN r :
                 i < j => r[i] # r[j] /\ FirstAt(g, r[i]) < FirstAt(g, r[j])
           /\ rx_expr = CountGet =>
                 rx_info = [signal_vars |-> <<"count">>, has_get_calls |-> TRUE]

\* C13: signal_vars holds exactly the bare variables that are the receiver
\* of a get call somewhere in the syntax tree, each once, in the order of
\* their first occurrence; count.get() gives [count] and has_get_calls; the
\* expression is left as it was.
C13_SignalVars == []SignalVarsRule /\ [][rx_expr' = rx_expr]_vars

\* the same variable read twice, in a receiver and in an argument
C13_Witness ==
    /\ Analyzed
    /\ rx_expr = ExprMethodCall(CountGet, "len", <<CountGet>>)
    /\ GetReceivers(rx_expr) = <<"count", "count">>
    /\ rx_info.signal_vars = <<"count">>

Checked == rx_pc \in {"checked", "bound", "emitted"}

\* C14: an expression with no method call named get has no signal
\* variables, has_get_calls false and is not reactive; an expression that
\* reads a variable through get is reactive.
C14_NonReactive ==
    /\ (Analyzed /\ ~HasGet(rx_expr)) =>
          rx_info = [signal_vars |-> <<>>, has_get_calls |-> FALSE]
    /\ (Checked /\ ~HasGet(rx_expr)) => rx_reactive = FALSE
    /\ (Checked /\ GetReceivers(rx_expr) # <<>>) => rx_reactive = TRUE

\* a method call that is not get, on a variable
C14_Witness ==
    /\ Checked
    /\ rx_expr = ExprMethodCall(ExprPath(<<"count">>), "len", <<>>)
    /\ rx_info.signal_vars = <<>> /\ ~rx_info.has_get_calls
    /\ rx_reactive = FALSE

C16_Original ==
    rx_pc = "emitted" =>
        LET oneShot == <<[method |-> n_width, arg |-> rx_expr]>> IN
        IF rx_info.signal_vars # <<>>
        THEN rx_code.property_calls # oneShot
        ELSE rx_code.property_calls = oneShot



\* a document that was written and is, or is to be, read back
RoundTrip == doc.format_version # ""

\* C17 (as stated): a document written by to_json and read by from_json comes
\* back equal in format_version, tree, component_definitions, logic and
\* reactive_manifest, with the children in their order.
C17_Original ==
    RoundTrip =>
        /\ pc # "json_error"
        /\ pc = "done" => doc2 = doc


\* a JSON text is at hand: written by to_json or handed to from_json
HasJson == pc \in {"deserialize", "done", "json_error"}

RECURSIVE AbsentNotWritten(_, _)
\* in the object j written for component c, and in those of its descendants,
\* no absent field and no empty children list has a key
AbsentNotWritten(c, j) ==
    /\ \A f \in OptionalFields : c[f] = None => ~Has(j, JsonKey(f))
    /\ c.children = <<>> => ~Has(j, "children")
    /\ \A i \in 1..Len(c.children) :
          AbsentNotWritten(c.children[i], j.v["children"].v[i])

RECURSIVE MissingReadAbsent(_, _)
\* in the component c read from object j, and in its descendants, every
\* field whose key is missing is None and missing children are no children
MissingReadAbsent(j, c) ==
    /\ \A f \in OptionalFields : ~Has(j, JsonKey(f)) => c[f] = None
    /\ ~Has(j, "children") => c.children = <<>>
    /\ \A i \in 1..Len(c.children) :
          MissingReadAbsent(j.v["children"].v[i], c.children[i])

\* C18: for each of the 17 optional fields of an IRComponent, an absent
\* field has no key in the JSON written, and a missing key is read back as
\* an absent field, never as a default value; an empty children list is
\* omitted too and read back as empty.  This holds for the root, for every
\* descendant and for the template of every definition.
C18_AbsentOmitted ==
    /\ (RoundTrip /\ HasJson) =>
          /\ AbsentNotWritten(doc.root, json.v["root"])
          /\ \A i \in 1..Len(doc.component_definitions) :
                AbsentNotWritten(doc.component_definitions[i].template,
                                 json.v["component_definitions"].v[i].v["template"])
    /\ pc = "done" =>
          /\ MissingReadAbsent(json.v["root"], doc2.root)
          /\ \A i \in 1..Len(doc2.component_definitions) :
                MissingReadAbsent(json.v["component_definitions"].v[i].v["template"],
                                  doc2.component_definitions[i].template)
    /\ (RoundTrip /\ pc = "done") =>
          /\ \A f \in OptionalFields : doc.root[f] = None => doc2.root[f] = None
          /\ doc.root.children = <<>> => doc2.root.children = <<>>

\* a document with a field set, the others absent and no children has been
\* written and read back
C18_Witness ==
    /\ RoundTrip
    /\ pc = "done"
    /\ doc.root.gap # None
    /\ doc.root.width = None
    /\ doc.root.children = <<>>
    /\ ~Has(json.v["root"], "width")
    /\ ~Has(json.v["root"], "children")
    /\ doc2.root.width = None
    /\ doc2.root.children = <<>>


\* JSON text j has format_version and a root, and what it has of the three
\* sections is of the section's form
SectionsApart(j) ==
    /\ j.t = "obj"
    /\ HasA(j, "format_version", "str")
    /\ Has(j, "root") /\ component_json_ok(j.v["root"])
    /\ Has(j, "component_definitions") => definitions_ok(j.v["component_definitions"])
    /\ Has(j, "logic") => logic_ok(j.v["logic"])
    /\ Has(j, "reactive_manifest") => manifest_ok(j.v["reactive_manifest"])

\* section or list named k of object j is missing
Lacks(j, k) == ~Has(j, k)

\* C19: from_json succeeds on a document with format_version and root,
\* whichever of logic, reactive_manifest and component_definitions it lacks;
\* a missing section reads as empty (no functions, no event bindings, no
\* variables, no definitions), and so does a list missing from a section
\* that is there.
C19_MissingSections ==
    /\ (pc = "json_error" /\ json.t = "obj") => ~SectionsApart(json)
    /\ pc = "done" =>
          /\ Lacks(json, "component_definitions") => Len(doc2.component_definitions) = 0
          /\ (Lacks(json, "logic") \/ Lacks(json.v["logic"], "functions"))
                => DOMAIN doc2.logic.functions = {}
          /\ (Lacks(json, "logic") \/ Lacks(json.v["logic"], "event_bindings"))
                => Len(doc2.logic.event_bindings) = 0
          /\ (Lacks(json, "reactive_manifest")
              \/ Lacks(json.v["reactive_manifest"], "variables"))
                => Len(doc2.reactive_manifest.variables) = 0

\* a text with none of the three sections has been read
C19_Witness ==
    /\ pc = "done"
    /\ ~RoundTrip
    /\ Lacks(json, "logic")
    /\ Lacks(json, "reactive_manifest")
    /\ Lacks(json, "component_definitions")
    /\ DOMAIN doc2.logic.functions = {}
    /\ Len(doc2.reactive_manifest.variables) = 0


\* from_json has returned
ReadOver == pc \in {"done", "json_error"}

AlignmentKeys == {"justifyContent", "alignItems"}
AlignmentConstants == {"start", "center", "end", "space-between", "space-around"}

\* x is neither one of the five constants nor a {var: name} reference
NotAnAlignment(x) ==
    /\ ~(x.t = "str" /\ x.v \in AlignmentConstants)
    /\ ~(x.t = "obj" /\ HasA(x, "var", "str"))

\* x is a string that is none of the five constants, a number, or an object
\* with neither a string var nor one of the constants as its only key
RejectedAlignment(x) ==
    \/ x.t = "str" /\ x.v \notin AlignmentConstants
    \/ x.t = "num"
    \/ /\ x.t = "obj"
       /\ ~HasA(x, "var", "str")
       /\ ~unit_variant_ok(x, AlignmentConstants)

\* the object of a node lacks id or type, or names a type that is none of
\* the 18
NodeDefect(j) ==
    \/ ~Has(j, "id")
    \/ ~Has(j, "type")
    \/ ~unit_variant_ok(j.v["type"], ComponentTypeNames)

RECURSIVE TreeDefect(_, _)
\* a node of the tree at j has a defect, or an alignment that is not one
\* when strict, a rejected one otherwise
TreeDefect(j, strict) ==
    /\ j.t = "obj"
    /\ \/ NodeDefect(j)
       \/ \E k \in AlignmentKeys :
             /\ Has(j, k)
             /\ IF strict THEN NotAnAlignment(j.v[k]) ELSE RejectedAlignment(j.v[k])
       \/ /\ HasA(j, "children", "arr")
          /\ \E i \in DOMAIN j.v["children"].v : TreeDefect(j.v["children"].v[i], strict)

DocDefect(j, strict) ==
    /\ j.t = "obj"
    /\ \/ ~Has(j, "root")
       \/ Has(j, "root") /\ TreeDefect(j.v["root"], strict)
       \/ /\ HasA(j, "component_definitions", "arr")
          /\ \E i \in DOMAIN j.v["component_definitions"].v :
                LET d == j.v["component_definitions"].v[i] IN
                d.t = "obj" /\ Has(d, "template") /\ TreeDefect(d.v["template"], strict)

RECURSIVE ReadAsWritten(_, _)
\* component c read from j has the id, the type and the alignments written
\* in j, and so have its descendants
ReadAsWritten(j, c) ==
    /\ c.id = j.v["id"].v
    /\ c.component_type.variant \in ComponentTypeNames
    /\ c.component_type.variant = unit_variant_name(j.v["type"])
    /\ \A f \in AlignmentFields :
          LET k == JsonKey(f) IN
          IF ~Has(j, k) \/ j.v[k].t = "null" THEN c[f] = None
          ELSE /\ c[f] # None
               /\ j.v[k].t = "str" =>
                     /\ c[f][1].kind = "Constant"
                     /\ alignment_to_json(c[f][1]).v = j.v[k].v
               /\ (j.v[k].t = "obj" /\ Has(j.v[k], "var")) =>
                     /\ c[f][1].kind = "Variable"
                     /\ c[f][1].var = j.v[k].v["var"].v
    /\ Len(c.children) = (IF Has(j, "children") THEN Len(j.v["children"].v) ELSE 0)
    /\ \A i \in 1..Len(c.children) : ReadAsWritten(j.v["children"].v[i], c.children[i])

Rejected == pc = "json_error" /\ doc2 = NoDoc

DocumentMade == pc \in {"serialize", "deserialize", "done", "json_error"}

\* C21: IRDocument::new(root) returns a document with format_version "3.0",
\* the root it was given, unchanged, no component definitions, an empty
\* logic section and an empty reactive manifest; the text written for it has
\* format_version "3.0" and the root's type under the key "type".
C21_NewDocument ==
    /\ DocumentMade =>
          /\ doc.format_version = "3.0"
          /\ doc.root = value
          /\ Len(doc.component_definitions) = 0
          /\ DOMAIN doc.logic.functions = {}
          /\ Len(doc.logic.event_bindings) = 0
          /\ Len(doc.reactive_manifest.variables) = 0
    /\ (DocumentMade /\ pc # "serialize") =>
          /\ HasA(json, "format_version", "str")
          /\ json.v["format_version"].v = "3.0"
          /\ HasA(json.v["root"], "type", "str")
          /\ json.v["root"].v["type"].v = value.component_type.variant
          /\ ~Has(json.v["root"], "component_type")

\* the document of a root with children has been made and written
C21_Witness ==
    /\ pc = "deserialize"
    /\ value.children # <<>>
    /\ doc.root = value
    /\ json.v["format_version"].v = "3.0"
    /\ json.v["root"].v["type"].v = "Column"


RECURSIVE SettersFirst(_, _, _)
\* from instruction i on, no block calls a setter after it has appended a
\* child; open tells, for each block under construction, if one was appended
SettersFirst(prog, i, open) ==
    IF i > Len(prog) THEN TRUE
    ELSE LET n == Len(open) IN
         CASE prog[i].op = "ctor"  -> SettersFirst(prog, i + 1, Append(open, FALSE))
           [] prog[i].op = "set"   -> ~open[n] /\ SettersFirst(prog, i + 1, open)
           [] prog[i].op = "child" ->
                SettersFirst(prog, i + 1, [open EXCEPT ![n] = TRUE])
           [] prog[i].op = "build" -> SettersFirst(prog, i + 1, SubSeq(open, 1, n - 1))
           [] OTHER                -> SettersFirst(prog, i + 1, open)

RECURSIVE RootCalls(_, _, _)
\* the setter and child-append calls made on the root block, in order
RootCalls(prog, i, depth) ==
    IF i > Len(prog) THEN <<>>
    ELSE CASE prog[i].op = "ctor"  -> RootCalls(prog, i + 1, depth + 1)
           [] prog[i].op = "build" -> RootCalls(prog, i + 1, depth - 1)
           [] prog[i].op \in {"set", "child"} /\ depth = 1 ->
                <<prog[i]>> \o RootCalls(prog, i + 1, depth)
           [] OTHER -> RootCalls(prog, i + 1, depth)

\* the body of the source block has an entry that is not a property before
\* one that is
ChildBeforeProperty ==
    /\ Len(input) = 2
    /\ Len(parsed.block.children) > 0
    /\ Len(SettersOf(parsed.block.properties)) > 0
    /\ ~(Len(input[2].body) >= 2 /\ input[2].body[1].k = "ident"
         /\ input[2].body[2].k = "colon")

\* C28: in the construction sequence generated for a block every setter
\* call comes before every child-append call, however properties and
\* children were interleaved in the source: the calls made on a block are
\* the setters of its property list in order, then one append for each
\* entry of its child list in order.
C28_SettersBeforeChildren ==
    Generated =>
        /\ SettersFirst(Program(code), 1, <<>>)
        /\ LET calls == RootCalls(Program(code), 1, 0)
               k == Len(SettersOf(parsed.block.properties))
           IN /\ Len(calls) = k + Len(parsed.block.children)
              /\ \A i \in 1..Len(calls) :
                    IF i <= k
                    THEN /\ calls[i].op = "set"
                         /\ calls[i].name = SettersOf(parsed.block.properties)[i].method
                    ELSE calls[i].op = "child"

\* a block written with a child before a property has been generated
C28_Witness ==
    /\ Generated
    /\ ChildBeforeProperty
    /\ RootCalls(Program(code), 1, 0)[1].op = "set"


\* generate_reactive_binding has returned
Bound == rx_pc \in {"bound", "emitted"}

\* C29 (as stated): for every expression has_get_calls is true exactly when
\* signal_vars is not empty, and is_reactive_expr is true exactly when
\* generate_reactive_binding returns a binding, also when the receiver of a
\* get call is not a bare variable.
C29_Original ==
    /\ Analyzed => (rx_info.has_get_calls <=> rx_info.signal_vars # <<>>)
    /\ Bound => (rx_reactive <=> rx_binding # None)


Unsigned(s) == IF s # <<>> /\ s[1] \in {"-", "+"} THEN SubSeq(s, 2, Len(s)) ELSE s

\* s is a decimal number: a sign or none, then digits with at most one
\* point among them
IsNumber(s) ==
    LET t == Unsigned(s) IN
    /\ \A i \in DOMAIN t : IsDigit(t[i]) \/ t[i] = "."
    /\ \E i \in DOMAIN t : IsDigit(t[i])
    /\ \A i, j \in DOMAIN t : (t[i] = "." /\ t[j] = ".") => i = j

\* s is a sign or none, then inf, infinity or nan in any case of letters
IsInfOrNan(s) ==
    LET t == Unsigned(s) IN
    [i \in DOMAIN t |-> to_ascii_lowercase(t[i])]
        \in {<<"i", "n", "f">>, <<"n", "a", "n">>,
             <<"i", "n", "f", "i", "n", "i", "t", "y">>}

Units == {<<"p", "x">>, <<"%">>, <<"f", "r">>}
EndsWith(s, u) == Len(s) >= Len(u) /\ SubSeq(s, Len(s) - Len(u) + 1, Len(s)) = u
Stem(s, u) == SubSeq(s, 1, Len(s) - Len(u))

NumberWithUnit(s) == \E u \in Units : EndsWith(s, u) /\ IsNumber(Stem(s, u))
InfOrNanWithUnit(s) == \E u \in Units : EndsWith(s, u) /\ IsInfOrNan(Stem(s, u))

Str_auto == <<"a", "u", "t", "o">>
Str_100px == <<"1", "0", "0", "p", "x">>

\* a dimension was formatted and the string read back
DimensionRoundTrip ==
    /\ dm_pc = "done" /\ dm_dim.variant # "None"
    => /\ dimension_eq(dm_out, dm_dim)
       /\ dm_dim = Dimension_px(Whole(FALSE, 100)) => dm_str = Str_100px

Recorders == 1..Len(sg_logs)

\* where the closure with tag t was pushed: the list and the position in it
ListOf(t) ==
    CHOOSE l \in DOMAIN sg_subs :
        \E p \in DOMAIN sg_subs[l] : sg_subs[l][p].tag = t /\ sg_subs[l][p].kind # "derive"
PositionOf(t) ==
    CHOOSE p \in DOMAIN sg_subs[ListOf(t)] :
        sg_subs[ListOf(t)][p].tag = t /\ sg_subs[ListOf(t)][p].kind # "derive"

\* the list a call notifies, and whether its loop is still running
CallList(c) == sg_handles[sg_calls[c].h].subscribers
InProgress(c) == \E k \in DOMAIN sg_stack : sg_stack[k].call = c
FrameOf(c) == sg_stack[CHOOSE k \in DOMAIN sg_stack : sg_stack[k].call = c]

\* how often call c called the closure with tag t
Notified(t, c) == Cardinality({k \in DOMAIN sg_logs[t] : sg_logs[t][k].call = c})

\* the closure with tag t was subscribed before call c began, to the list it notifies
SubscribedBefore(t, c) ==
    /\ ListOf(t) = CallList(c)
    /\ PositionOf(t) <= sg_calls[c].nsubs

\* the calls that have to call the closure with tag t, by now
DueBy(t, c) ==
    /\ SubscribedBefore(t, c)
    /\ sg_calls[c].changed
    /\ InProgress(c) => PositionOf(t) < FrameOf(c).i

LogIncreasing(t) ==
    \A j, k \in DOMAIN sg_logs[t] : j < k => sg_logs[t][j].call < sg_logs[t][k].call

PlainCalls == {c \in DOMAIN sg_calls : sg_calls[c].op \in {"set", "update"}}

CheckedCalls == {c \in DOMAIN sg_calls : sg_calls[c].op = "set_if_changed"}

\* the last call made is a set_if_changed, it is over and nothing was done since
JustReturned(c) ==
    /\ c = Len(sg_calls)
    /\ ~InProgress(c)
    /\ sg_ret.op = "set_if_changed"

\* C24: set_if_changed(v) with v equal to the current value returns false,
\* leaves the value and calls no subscriber; with another v it stores v,
\* calls every subscriber once with v and returns true: a subscriber is
\* called once for each call that returned true, and for no other.
C24_SetIfChanged ==
    \A c \in CheckedCalls :
       /\ sg_calls[c].changed <=> sg_calls[c].value # sg_calls[c].before
       /\ \A t \in Recorders :
             /\ Notified(t, c) = IF DueBy(t, c) THEN 1 ELSE 0
             /\ \A k \in DOMAIN sg_logs[t] :
                   sg_logs[t][k].call = c =>
                      sg_logs[t][k].v = sg_calls[c].value /\ sg_logs[t][k].held = sg_calls[c].value
       /\ ~sg_calls[c].changed =>
             /\ ~InProgress(c)
             /\ c = Len(sg_calls) => Signal_get(sg_handles[sg_calls[c].h], sg_values) = sg_calls[c].before
       /\ JustReturned(c) => sg_ret.ret = IF sg_calls[c].changed THEN 1 ELSE 0

\* a subscriber, then a set_if_changed that changed the value and the same
\* call again: one notification, and false returned
C24_Witness ==
    /\ SgIdle
    /\ Len(sg_logs) >= 1
    /\ Len(sg_calls) = 2
    /\ sg_calls[1].op = "set_if_changed" /\ sg_calls[1].changed
    /\ sg_calls[2].op = "set_if_changed" /\ ~sg_calls[2].changed
    /\ sg_calls[2].value = sg_calls[1].value
    /\ Len(sg_logs[1]) = 1
    /\ sg_logs[1][1].v = sg_calls[1].value
    /\ sg_ret = [op |-> "set_if_changed", ret |-> 0]

ClosureOf(t) == sg_subs[ListOf(t)][PositionOf(t)]

\* the closures subscribed through a handle of the signal itself
SourceRecorders == {t \in Recorders : ClosureOf(t).via \in SourceHandles}

\* C25: the clones of a signal share one value and one list of subscribers:
\* get returns the same on every handle, and a subscriber registered
\* through one handle is called by every later set or update made through
\* any handle.
C25_ClonesShare ==
    /\ \A h \in SourceHandles :
          Signal_get(sg_handles[h], sg_values) = Signal_get(sg_handles[1], sg_values)
    /\ \A t \in SourceRecorders, c \in DOMAIN sg_calls :
          (sg_calls[c].changed /\ ~InProgress(c) /\ ClosureOf(t).since < c) =>
             \E k \in DOMAIN sg_logs[t] :
                sg_logs[t][k].call = c /\ sg_logs[t][k].v = sg_calls[c].value

\* a subscriber registered through the clone is called by a set made through
\* the original, and the clone reads the value set
C25_Witness ==
    /\ SgIdle
    /\ Len(sg_handles) >= 2
    /\ 2 \in SourceHandles
    /\ Len(sg_logs) >= 1
    /\ ClosureOf(1).via = 2
    /\ Len(sg_calls) >= 1
    /\ sg_calls[1].h = 1
    /\ sg_calls[1].value # sg_calls[1].before
    /\ Len(sg_logs[1]) >= 1
    /\ sg_logs[1][1].call = 1
    /\ Len(sg_calls) = 1 => Signal_get(sg_handles[2], sg_values) = sg_calls[1].value

\* the closures derive pushed on a list
DeriveClosures(list) == {p \in DOMAIN list : list[p].kind = "derive"}

\* the closures subscribed through the handle derive returned
DerivedRecorders == {t \in Recorders : ClosureOf(t).via = sg_derived}

\* the step is the call of derive: the new signal holds f of the value the
\* source holds, has no subscriber, and the source has one subscriber more
DeriveStep ==
    (sg_derived = 0 /\ sg_derived' # 0) =>
       LET d == sg_handles'[sg_derived']
           pushed == sg_subs'[1][Len(sg_subs'[1])]
       IN /\ pushed.kind = "derive"
          /\ Len(sg_subs'[1]) = Len(sg_subs[1]) + 1
          /\ SubSeq(sg_subs'[1], 1, Len(sg_subs[1])) = sg_subs[1]
          /\ sg_values'[d.value] = ApplyClosure(pushed.f, sg_values[1])
          /\ sg_values'[1] = sg_values[1]
          /\ sg_subs'[d.subscribers] = <<>>

\* the step is made after derive: whatever it does to the source, the
\* derived signal keeps its value and its subscribers are not called
AfterDeriveStep ==
    sg_derived # 0 =>
       /\ Signal_get(sg_handles'[sg_derived], sg_values')
             = Signal_get(sg_handles[sg_derived], sg_values)
       /\ \A t \in DerivedRecorders : sg_logs'[t] = <<>>
       /\ Cardinality(DeriveClosures(sg_subs'[1])) = 1

C27_Original ==
    \A t \in Recorders :
       /\ \A k \in DOMAIN sg_logs[t] : sg_logs[t][k].v = sg_logs[t][k].held
       /\ (SgIdle /\ sg_logs[t] # <<>>) =>
             sg_logs[t][Len(sg_logs[t])].v = Signal_get(sg_handles[1], sg_values)

=============================================================================
